---- MODULE Spec2Model ----
(***************************************************************************)
(* Roster state machine of the sign-up bot (src/index.js, second copy of   *)
(* the program, lines 958-2759): the in-memory registry `games`, the       *)
(* command handlers of handleEvent, the full-state file save, the          *)
(* flattened snapshot and the schedule scan.                               *)
(*                                                                         *)
(* Conventions                                                             *)
(*  - `games` is a function whose domain is the set of conversation ids    *)
(*    that have a game (a JS object keyed by gid).                         *)
(*  - scheduleTime 0 stands for null / deleted: the code tests the field   *)
(*    with `!g.scheduleTime` and `games[gid].scheduleTime && ...`, which   *)
(*    treat null, undefined and 0 alike.                                   *)
(*  - A handler runs atomically up to an await on an external collaborator *)
(*    (name lookup, push, remote store); the continuation is a separate    *)
(*    action, so other handlers interleave exactly there.                  *)
(***************************************************************************)
EXTENDS Integers, Sequences, FiniteSets, TLC

\* ------------------------------------------------------------- bounds
MaxLen == 2        \* longest section list the commands may build
MaxTime == 2       \* the clock runs 0..MaxTime
MaxPending == 1    \* handlers suspended at the name lookup at one time
MaxCount == 2      \* largest +N / -N count explored (the code allows 1..9)

\* ---------------------------------------------------------- constants
ANON == "__ANON__"             \* the anonymous placeholder token
FallbackName == "QiuYou"       \* getName's default name when the lookup fails
DefaultLimit == 20             \* Create without a capacity field
DefaultBackupLimit == 5        \* Create without a waitlist field
DefaultSectionLimit == 10      \* parseInt(p[1]) || 10

Gids == {"g1", "g2"}
GidOrder == <<"g1", "g2">>     \* Object.keys(games) enumeration order
Uids == {"u1"}
Names == {"A", "B"}
DisplayName(uid) == IF uid = "u1" THEN "A" ELSE "B"

\* ------------------------------------------------------------ helpers
Includes(list, x) == \E i \in 1..Len(list) : list[i] = x

RECURSIVE Filter(_, _)
\* Array.prototype.filter with the predicate "element is in keep"
Filter(list, keep) ==
  IF list = <<>> THEN <<>>
  ELSE IF Head(list) \in keep THEN <<Head(list)>> \o Filter(Tail(list), keep)
  ELSE Filter(Tail(list), keep)

Range(list) == {list[i] : i \in 1..Len(list)}

\* list.filter(n => n !== '__ANON__')
NonAnon(list) == Filter(list, Range(list) \ {ANON})

\* new Set(xs).size !== xs.length
HasSelfDuplicate(xs) == Cardinality(Range(xs)) # Len(xs)

\* Array(count).fill('__ANON__')
Placeholders(count) == [i \in 1..count |-> ANON]

\* all sequences over S of length 0..n
SeqsUpTo(S, n) == UNION {[1..k -> S] : k \in 0..n}

VARIABLES
  games,            \* the registry: [gid -> game]
  now,              \* Date.now()
  userNameCache,    \* set of "gid_uid" keys that hold the display name
  uidToNameMap,     \* [key -> name], key = <<gid, uid>>
  pend,             \* handlers suspended at `await getName(gid, uid)`
  ev,               \* the handler step just taken and the replies it sent
  file,             \* games.json: [exists, data]
  pendingSaves,     \* the Set of gids waiting for a file write
  saveFileTimeout,  \* TRUE while the variable holds a timer handle
  timers,           \* debounce timers set and neither fired nor cleared
  fileWrite,        \* the write of the timer's flush: [busy, data, waiting]
  isShuttingDown,
  pool,             \* the database connection is in use (pool is not null)
  db,               \* the games table of the database: [gid -> game]
  dbUp,             \* the database answers queries
  dbLog,            \* history of database access: [failed, attempts]
  USE_GITHUB,       \* the remote store is configured (fixed at start)
  regCsvWriteChain, \* snapshot writes queued behind the running one
  regCsvSha,        \* version tag observed last, 0 = null
  regCsvContent,    \* cached snapshot text: [nonEmpty, rows]
  regCsvFile,       \* data/registrations.csv: [exists, rows]
  remote,           \* the remote blob: [exists, rows, sha]
  reachable,        \* the remote store answers requests
  proc,             \* the tasks that talk to the remote store
  csvLog,           \* history of the snapshot writes: [any, lastEnq, allOk, foreign]
  scans,            \* checkSchedules runs suspended at a reminder push
  checkingSchedules,\* the re-entrancy flag of the minute timer
  scanPushes        \* [gid -> pushes attempted by scans since the schedule was set]

rosterVars == <<games, now, userNameCache, uidToNameMap, pend, ev>>
fileVars == <<file, pendingSaves, saveFileTimeout, timers, fileWrite,
             isShuttingDown,
             pool, db, dbUp, dbLog>>
csvVars == <<USE_GITHUB, regCsvWriteChain, regCsvSha, regCsvContent,
            regCsvFile, remote, reachable, proc, csvLog>>
schedVars == <<scans, checkingSchedules, scanPushes>>
vars == <<rosterVars, fileVars, csvVars, schedVars>>

\* ------------------------------------------------------- roster model
Section(limit, backupLimit, list) ==
  [limit |-> limit, backupLimit |-> backupLimit, list |-> list]

\* the object literal of the Create handler (title, note, startTime and the legacy
\* `anonymous` list do not influence any list or schedule and are left out)
NewGame(limit, backupLimit, list, sched, anonList, t) ==
  [active |-> TRUE, scheduleTime |-> sched,
   sections |-> <<Section(limit, backupLimit, list)>>,
   anonymous |-> anonList, startTime |-> t, lastActiveTime |-> t]

\* touchGame(gid) at time t
touchGame(game, t) == [game EXCEPT !.lastActiveTime = t]

Put(G, gid, game) ==
  [g \in DOMAIN G \cup {gid} |-> IF g = gid THEN game ELSE G[g]]

Remove(G, gid) == [g \in DOMAIN G \ {gid} |-> G[g]]

Reply(kind, arg) == [kind |-> kind, arg |-> arg]

Ev(op, gid, uid, names, replies) ==
  [op |-> op, gid |-> gid, uid |-> uid, names |-> names, replies |-> replies]

\* addToList without the test of the live list: every name is pushed
addToList_unchecked(list, name) == Append(list, name)

\* addToList with the placeholder treated like a name: pushed once only
addToList_dedup(list, name) ==
  IF ~Includes(list, name) THEN Append(list, name) ELSE list

\* addToList(gid, idx, name) on the list of an existing section
addToList(list, name) ==
  IF name = ANON THEN Append(list, name)
  ELSE IF ~Includes(list, name) THEN Append(list, name)
  ELSE list

\* only the first name of the batch is pushed
AddAll_first(list, names) ==
  IF names = <<>> THEN list ELSE addToList(list, Head(names))

RECURSIVE AddAll(_, _)
\* namesToAdd.forEach(n => addToList(gid, 0, n))
AddAll(list, names) ==
  IF names = <<>> THEN list
  ELSE AddAll(addToList(list, Head(names)), Tail(names))

\* s.list.splice(s.list.indexOf(name), 1) when the name is present
RemoveFirst(list, name) ==
  IF ~Includes(list, name) THEN list
  ELSE LET i == CHOOSE k \in 1..Len(list) :
                  list[k] = name /\ \A j \in 1..(k - 1) : list[j] # name
       IN SubSeq(list, 1, i - 1) \o SubSeq(list, i + 1, Len(list))

\* removeFromList that looks at section 0 only
removeFromList_first(game, name) ==
  [game EXCEPT !.sections[1].list = RemoveFirst(@, name)]

\* removeFromList(gid, name): every section
removeFromList(game, name) ==
  [game EXCEPT !.sections =
     [k \in 1..Len(@) |-> [@[k] EXCEPT !.list = RemoveFirst(@, name)]]]

\* removeAnon that takes the placeholder at the lowest index
RemoveLastAnon_lowest(list) == RemoveFirst(list, ANON)

\* removeAnon(gid): the last placeholder of section 0
RemoveLastAnon(list) ==
  IF ~Includes(list, ANON) THEN list
  ELSE LET i == CHOOSE k \in 1..Len(list) :
                  list[k] = ANON /\ \A j \in (k + 1)..Len(list) : list[j] # ANON
       IN SubSeq(list, 1, i - 1) \o SubSeq(list, i + 1, Len(list))

removeAnon(game) ==
  [game EXCEPT !.sections[1].list = RemoveLastAnon(@)]

\* the gate also closed at the scheduled time itself
NotYetOpen_inclusive(game, t) ==
  game.scheduleTime # 0 /\ game.scheduleTime >= t

\* The gating test of + / - : a schedule that is set and still in the future
NotYetOpen(game, t) == game.scheduleTime # 0 /\ game.scheduleTime > t

\* A handler suspended at the name lookup keeps `currentList`, a reference to
\* the array that was section 0's list when it started.  Commands that
\* mutate that array in place (push, splice) are seen through the reference
\* (live = TRUE); a command that installs a new array leaves the handler
\* with the old array's last content (live = FALSE, cur = that content).
\* Leave does not read `currentList` after the lookup.
Detach(P, gid, oldList) ==
  [i \in 1..Len(P) |->
     IF P[i].kind = "join" /\ P[i].gid = gid /\ P[i].live
     THEN [P[i] EXCEPT !.live = FALSE, !.cur = oldList]
     ELSE P[i]]

List0(G, gid) == IF gid \in DOMAIN G THEN G[gid].sections[1].list ELSE <<>>

\* ------------------------------------------------- full-state file save
MaxDb == 3         \* database queries counted
MaxTimers == 2     \* debounce timers pending at one time

FS == [file |-> file, pendingSaves |-> pendingSaves,
       saveFileTimeout |-> saveFileTimeout, isShuttingDown |-> isShuttingDown,
       pool |-> pool, db |-> db, dbLog |-> dbLog, timers |-> timers,
       fileWrite |-> fileWrite]

\* no write of games.json in flight.  waiting: the save requests made since
\* the content of the last write was taken
IdleWrite == [busy |-> FALSE, data |-> [g \in {} |-> 0], waiting |-> {}]

\* flushFileSave awaited by a handler or by gracefulShutdown: the write is
\* taken in the step of the caller, after a write already in flight
flushFileSave(fs, G) ==
  IF fs.pendingSaves = {} THEN fs
  ELSE [fs EXCEPT !.file = [exists |-> TRUE, data |-> G], !.pendingSaves = {},
                  !.fileWrite = IdleWrite]

scheduleFileSave(fs) ==
  IF fs.saveFileTimeout THEN fs
  ELSE [fs EXCEPT !.saveFileTimeout = TRUE, !.timers = @ + 1]

\* the file branch of saveGame with every save left to the debounce timer
saveToFile_debounced(fs, G, gid, flush) ==
  scheduleFileSave([fs EXCEPT !.pendingSaves = @ \cup {gid},
                              !.fileWrite.waiting = @ \cup {gid}])

\* the file branch of saveGame
saveToFile(fs, G, gid, flush) ==
  LET fs1 == [fs EXCEPT !.pendingSaves = @ \cup {gid},
                        !.fileWrite.waiting = @ \cup {gid}]
  IN IF flush THEN flushFileSave(fs1, G) ELSE scheduleFileSave(fs1)

\* pool.query(INSERT ... ON CONFLICT DO UPDATE) answered by the database
dbUpsert(fs, G, gid) ==
  [fs EXCEPT !.db = [g \in DOMAIN fs.db \cup {gid} |->
                       IF g = gid THEN G[gid] ELSE fs.db[g]],
             !.dbLog.attempts = @ + 1]

\* the catch branch of saveGame made permanent: the connection is dropped
saveFailed_dropPool(fs, G, gid, immediate) ==
  saveToFile([fs EXCEPT !.dbLog.attempts = @ + 1, !.dbLog.failed = TRUE,
                        !.pool = FALSE], G, gid, immediate)

\* the catch branch of saveGame: this save goes to the file, pool stays set
saveFailed(fs, G, gid, immediate) ==
  saveToFile([fs EXCEPT !.dbLog.attempts = @ + 1, !.dbLog.failed = TRUE],
             G, gid, immediate)

\* saveGame(gid, immediate): the database while pool is set, else the file
saveGame(fs, G, gid, immediate) ==
  IF gid \notin DOMAIN G THEN fs
  ELSE IF fs.pool
       THEN IF dbUp THEN dbUpsert(fs, G, gid)
            ELSE saveFailed(fs, G, gid, immediate)
       ELSE saveToFile(fs, G, gid, immediate \/ fs.isShuttingDown)

\* deleteGame(gid) after `delete games[gid]`: the row is deleted from the
\* database while pool is set (an error is logged), then the file is marked
deleteGameFile(fs, gid) ==
  LET fs1 == IF ~fs.pool THEN fs
             ELSE IF dbUp THEN [fs EXCEPT !.db = Remove(@, gid)]
             ELSE [fs EXCEPT !.dbLog.failed = TRUE]
  IN scheduleFileSave([fs1 EXCEPT !.pendingSaves = @ \cup {"__all__"},
                                  !.fileWrite.waiting = @ \cup {"__all__"}])

SetFS(fs) ==
  /\ fs.dbLog.attempts <= MaxDb
  /\ fs.timers <= MaxTimers
  /\ timers' = fs.timers
  /\ fileWrite' = fs.fileWrite
  /\ file' = fs.file
  /\ pendingSaves' = fs.pendingSaves
  /\ saveFileTimeout' = fs.saveFileTimeout
  /\ pool' = fs.pool
  /\ db' = fs.db
  /\ dbLog' = fs.dbLog
  /\ UNCHANGED <<isShuttingDown, dbUp>>

\* the debounce timer fires: saveFileTimeout = null; flushFileSave returns
\* if pendingSaves is empty, else it takes JSON.stringify(games) and awaits
\* fs.promises.writeFile
FileTimerFire ==
  /\ timers > 0
  /\ pendingSaves # {} => ~fileWrite.busy
  /\ LET fs1 == [FS EXCEPT !.saveFileTimeout = FALSE, !.timers = @ - 1]
     IN SetFS(IF pendingSaves = {} THEN fs1
              ELSE [fs1 EXCEPT !.fileWrite = [busy |-> TRUE, data |-> games,
                                              waiting |-> {}]])
  /\ ev' = Ev("FileTimer", "", "", <<>>,
              <<Reply("served", Cardinality(pendingSaves))>>)
  /\ UNCHANGED <<games, now, userNameCache, uidToNameMap, pend, csvVars,
                 schedVars>>

\* the write of the timer's flush returns: pendingSaves.clear()
FileWriteDone ==
  /\ fileWrite.busy
  /\ SetFS([FS EXCEPT !.file = [exists |-> TRUE, data |-> fileWrite.data],
                      !.pendingSaves = {}, !.fileWrite.busy = FALSE])
  /\ ev' = Ev("FileWriteDone", "", "", <<>>, <<>>)
  /\ UNCHANGED <<games, now, userNameCache, uidToNameMap, pend, csvVars,
                 schedVars>>

\* --------------------------------------------------- flattened snapshot
SectionRows(gid, idx, sec) ==
  LET real == NonAnon(sec.list)
  IN [i \in 1..Len(real) |-> <<gid, idx, real[i], sec.limit, sec.backupLimit>>]

RECURSIVE GameRows(_, _, _)
GameRows(gid, secs, idx) ==
  IF secs = <<>> THEN <<>>
  ELSE SectionRows(gid, idx, Head(secs)) \o GameRows(gid, Tail(secs), idx + 1)

RECURSIVE FlattenFrom(_, _)
FlattenFrom(G, order) ==
  IF order = <<>> THEN <<>>
  ELSE (IF Head(order) \in DOMAIN G
        THEN GameRows(Head(order), G[Head(order)].sections, 0)
        ELSE <<>>) \o FlattenFrom(G, Tail(order))

\* csvContent of saveCurrentListSnapshot: the data rows (the header is fixed)
Flatten(G) == FlattenFrom(G, GidOrder)

MaxQueue == 2      \* snapshot writes waiting in the chain at one time
MaxSha == 3        \* versions of the remote blob
MaxPuts == 3       \* PUT requests counted for one write

\* the tasks that send requests to the remote store: the load at start-up,
\* the task at the head of regCsvWriteChain, and gracefulShutdown.
\* pc: "idle" | "get" (start-up load) | "load" (ensureRegCsvReady) |
\*     "put" | "reload" (after a conflict) | "wait" (await regCsvWriteChain) |
\*     "exited".  rows: the content to write.  sha: the tag sent with the PUT
\* in flight.  puts, reloads, conflict: what the write has done so far.
Procs == {"startup", "chain", "shutdown"}
EmptyProc == [pc |-> "idle", rows |-> <<>>, sha |-> 0, allowRetry |-> TRUE,
              puts |-> 0, reloads |-> 0, conflict |-> FALSE, wait |-> 0]

\* the state the snapshot code reads and writes
ST == [proc |-> proc, chain |-> regCsvWriteChain, sha |-> regCsvSha,
       content |-> regCsvContent, file |-> regCsvFile, remote |-> remote,
       log |-> csvLog]

\* the request of writeCsvToGitHub: `if (regCsvSha) data.sha = regCsvSha`
Dispatch(st, p, rows, allowRetry) ==
  [st EXCEPT !.proc[p].pc = "put", !.proc[p].rows = rows,
             !.proc[p].sha = st.sha, !.proc[p].allowRetry = allowRetry,
             !.proc[p].puts = @ + 1]

\* `return await writeCsvToGitHub(content, message, false)`
RetryWrite_again(st, p) == Dispatch(st, p, st.proc[p].rows, TRUE)

RetryWrite(st, p) == Dispatch(st, p, st.proc[p].rows, FALSE)

\* regCsvWriteChain.then(...): the writes run in the order they were chained
Dequeue_newest(chain) ==
  [task |-> chain[Len(chain)], rest |-> SubSeq(chain, 1, Len(chain) - 1)]

Dequeue(chain) == [task |-> Head(chain), rest |-> Tail(chain)]

\* the head of the chain starts: ensureRegCsvReady loads the remote blob only
\* while regCsvContent is empty, otherwise the PUT is sent at once
BeginTask(st) ==
  LET d == Dequeue(st.chain)
      st1 == [st EXCEPT !.chain = d.rest,
                        !.proc.chain = [EmptyProc EXCEPT !.rows = d.task]]
  IN IF st.content.nonEmpty THEN Dispatch(st1, "chain", d.task, TRUE)
     ELSE [st1 EXCEPT !.proc.chain.pc = "load"]

Kick(st) ==
  IF USE_GITHUB /\ st.proc.chain.pc = "idle" /\ st.chain # <<>>
  THEN BeginTask(st) ELSE st

\* gracefulShutdown after `await regCsvWriteChain`: the final write is sent
\* by writeCsvToGitHub directly, then process.exit(0)
ShutdownContinue(st) ==
  IF USE_GITHUB /\ st.content.nonEmpty
  THEN Dispatch(st, "shutdown", st.content.rows, TRUE)
  ELSE [st EXCEPT !.proc.shutdown.pc = "exited"]

\* a write has settled: the promise gracefulShutdown awaits may resolve and
\* the next write of the chain starts, both before any other event
EndTask(st, p) ==
  IF p = "shutdown" THEN [st EXCEPT !.proc.shutdown.pc = "exited"]
  ELSE LET st1 == [st EXCEPT !.proc.chain = EmptyProc]
           sd == st1.proc.shutdown
           st2 == IF sd.pc = "wait"
                  THEN IF sd.wait = 1
                       THEN ShutdownContinue(
                              [st1 EXCEPT !.proc.shutdown.wait = 0])
                       ELSE [st1 EXCEPT !.proc.shutdown.wait = @ - 1]
                  ELSE st1
       IN Kick(st2)

\* loadCsvFromGitHub: the answer to the GET
LoadResult(st) ==
  IF reachable
  THEN IF st.remote.exists
       THEN [st EXCEPT !.sha = st.remote.sha,
                       !.content = [nonEmpty |-> TRUE, rows |-> st.remote.rows]]
       ELSE [st EXCEPT !.sha = 0,
                       !.content = [nonEmpty |-> TRUE, rows |-> <<>>]]
  ELSE IF st.file.exists
       THEN [st EXCEPT !.content = [nonEmpty |-> TRUE, rows |-> st.file.rows]]
       ELSE st

\* ensureRegCsvReady after its load: an empty cache becomes the header line
EnsureHeader(st) ==
  IF st.content.nonEmpty THEN st
  ELSE [st EXCEPT !.content = [nonEmpty |-> TRUE, rows |-> <<>>]]

\* the answer of the store to the PUT of task p: a tag that differs from the
\* blob's is a version conflict (409), a missing tag for an existing blob is
\* refused as invalid (422), an unreachable store gives a network error
PutOutcome(st, p) ==
  IF ~reachable THEN "failed"
  ELSE IF st.remote.exists /\ st.proc[p].sha = 0 THEN "failed"
  ELSE IF st.remote.exists /\ st.proc[p].sha # st.remote.sha THEN "conflict"
  ELSE "ok"

\* the catch branch of writeCsvToGitHub: fs.promises.writeFile(REG_CSV_FILE)
Fallback(st, p) ==
  [st EXCEPT !.file = [exists |-> TRUE, rows |-> st.proc[p].rows]]

Committed(st, p) ==
  [st EXCEPT !.remote = [exists |-> TRUE, rows |-> st.proc[p].rows,
                         sha |-> st.remote.sha + 1]]

SetStore(st) ==
  /\ Len(st.chain) <= MaxQueue
  /\ \A p \in Procs : st.proc[p].puts <= MaxPuts
  /\ st.remote.sha <= MaxSha
  /\ proc' = st.proc
  /\ regCsvWriteChain' = st.chain
  /\ regCsvSha' = st.sha
  /\ regCsvContent' = st.content
  /\ regCsvFile' = st.file
  /\ remote' = st.remote
  /\ csvLog' = st.log
  /\ UNCHANGED <<USE_GITHUB, reachable>>

CS == [chain |-> regCsvWriteChain, regCsvFile |-> regCsvFile]

\* saveCurrentListSnapshot(gid, false): csvContent is computed from `games`
\* at the call and the write is appended to regCsvWriteChain.  Without the
\* remote store the queued write is fs.writeFile(REG_CSV_FILE, csvContent);
\* it is taken in the enqueuing step (the chain is idle between handlers).
saveCurrentListSnapshot(cs, G) ==
  IF USE_GITHUB THEN [cs EXCEPT !.chain = Append(@, Flatten(G))]
  ELSE [cs EXCEPT !.regCsvFile = [exists |-> TRUE, rows |-> Flatten(G)]]

\* the handler returns: a write chained onto an idle chain starts at once
SetCS(cs) ==
  LET n == Len(cs.chain)
      log == IF n > Len(regCsvWriteChain)
             THEN [csvLog EXCEPT !.any = TRUE, !.lastEnq = cs.chain[n]]
             ELSE csvLog
  IN SetStore(Kick([ST EXCEPT !.chain = cs.chain, !.file = cs.regCsvFile,
                              !.log = log]))

\* ------------------------------------------------------------ handlers
Key(gid, uid) == <<gid, uid>>

\* 1. Create: limit / backupLimit come from \d+ fields (or the defaults),
\* names from the list field, anonCount from a numeric anonymous field,
\* sched from the time field (0 when absent or unparseable).
Create(gid, uid, limit, backupLimit, names, anonCount, sched, hasList, anonList) ==
  LET initialList == names \o (IF anonList # <<>> THEN anonList
                               ELSE Placeholders(anonCount))
      game == NewGame(limit, backupLimit, initialList, sched, anonList, now)
      G == Put(games, gid, game)
      cs1 == IF hasList THEN saveCurrentListSnapshot(CS, G) ELSE CS
  IN IF HasSelfDuplicate(NonAnon(initialList))
     THEN /\ ev' = Ev("Create", gid, uid, initialList, <<Reply("dup", 0)>>)
          /\ UNCHANGED <<games, now, userNameCache, uidToNameMap, pend,
                         fileVars, csvVars, schedVars>>
     ELSE /\ games' = G
          /\ pend' = Detach(pend, gid, List0(games, gid))
          /\ SetFS(saveGame(FS, G, gid, TRUE))
          /\ SetCS(saveCurrentListSnapshot(cs1, G))
          /\ ev' = Ev("Create", gid, uid, initialList,
                      IF sched # 0
                      THEN (IF sched <= now THEN <<Reply("push", sched)>>
                            ELSE <<>>) \o <<Reply("scheduled", sched)>>
                      ELSE <<Reply("list", 0)>>)
          /\ scanPushes' = IF sched # 0 THEN [scanPushes EXCEPT ![gid] = 0]
                           ELSE scanPushes
          /\ UNCHANGED <<now, userNameCache, uidToNameMap, scans,
                         checkingSchedules>>

\* deleteGame(gid)
DeleteOf(gid) ==
  /\ games' = Remove(games, gid)
  /\ pend' = Detach(pend, gid, List0(games, gid))
  /\ SetFS(deleteGameFile(FS, gid))
  /\ SetCS(saveCurrentListSnapshot(CS, Remove(games, gid)))
  /\ UNCHANGED <<now, userNameCache, uidToNameMap, schedVars>>

\* End: snapshot awaited before the deletion.  Modelled for the local-file
\* configuration, where the awaited write is the file write of this step.
End(gid, uid) ==
  /\ ~USE_GITHUB
  /\ DeleteOf(gid)
  /\ ev' = Ev("End", gid, uid, <<>>, <<Reply("ended", 0)>>)

Delete(gid, uid) ==
  /\ DeleteOf(gid)
  /\ ev' = Ev("Delete", gid, uid, <<>>, <<Reply("deleted", 0)>>)

\* a Modify that puts the default waitlist size back when none is named
ModifiedSection_defaults(sec, limitOpt, backupOpt) ==
  [sec EXCEPT !.limit = IF limitOpt # <<>> /\ limitOpt[1] > 0 THEN limitOpt[1] ELSE @,
              !.backupLimit = IF backupOpt # <<>> /\ backupOpt[1] >= 0
                              THEN backupOpt[1] ELSE DefaultBackupLimit]

\* if (newLimit > 0) section.limit = newLimit;
\* if (newBackupLimit >= 0) section.backupLimit = newBackupLimit
ModifiedSection(sec, limitOpt, backupOpt) ==
  [sec EXCEPT !.limit = IF limitOpt # <<>> /\ limitOpt[1] > 0 THEN limitOpt[1] ELSE @,
              !.backupLimit = IF backupOpt # <<>> /\ backupOpt[1] >= 0
                              THEN backupOpt[1] ELSE @]

\* Modify: each option is <<>> (field absent) or <<value>>
Modify(gid, uid, hasTitle, limitOpt, backupOpt, listOpt) ==
  IF gid \notin DOMAIN games \/ ~games[gid].active
  THEN /\ ev' = Ev("Modify", gid, uid, <<>>, <<Reply("noGame", 0)>>)
       /\ UNCHANGED <<games, now, userNameCache, uidToNameMap, pend,
                      fileVars, csvVars, schedVars>>
  ELSE
    LET sec == games[gid].sections[1]
        setLimit == limitOpt # <<>> /\ limitOpt[1] > 0
        setBackup == backupOpt # <<>> /\ backupOpt[1] >= 0
        sec1 == ModifiedSection(sec, limitOpt, backupOpt)
        newList == IF listOpt # <<>> THEN listOpt[1] ELSE <<>>
        listDup == listOpt # <<>> /\ HasSelfDuplicate(NonAnon(newList))
        sec2 == IF listOpt # <<>> THEN [sec1 EXCEPT !.list = newList] ELSE sec1
        hasChanges == hasTitle \/ setLimit \/ setBackup \/ listOpt # <<>>
        G1 == Put(games, gid, [games[gid] EXCEPT !.sections[1] = sec1])
        G2 == Put(games, gid, touchGame([games[gid] EXCEPT !.sections[1] = sec2],
                                        now))
    IN IF listDup
       THEN \* the return of the duplicate check: title, limit and
            \* backupLimit have already been assigned
            /\ games' = G1
            /\ ev' = Ev("Modify", gid, uid, newList, <<Reply("dupModify", 0)>>)
            /\ UNCHANGED <<now, userNameCache, uidToNameMap, pend,
                           fileVars, csvVars, schedVars>>
       ELSE IF ~hasChanges
       THEN /\ ev' = Ev("Modify", gid, uid, <<>>, <<Reply("nothing", 0)>>)
            /\ UNCHANGED <<games, now, userNameCache, uidToNameMap, pend,
                           fileVars, csvVars, schedVars>>
       ELSE /\ games' = G2
            /\ pend' = IF listOpt # <<>> THEN Detach(pend, gid, sec.list)
                       ELSE pend
            /\ SetFS(saveGame(FS, G2, gid, TRUE))
            /\ SetCS(IF listOpt # <<>> THEN saveCurrentListSnapshot(CS, G2)
                     ELSE CS)
            /\ ev' = Ev("Modify", gid, uid, newList, <<Reply("list", 0)>>)
            /\ UNCHANGED <<now, userNameCache, uidToNameMap, schedVars>>

\* the batch is stored only while it fits into limit + backupLimit
AppendBatch_capped(game, namesToAdd) ==
  IF Len(game.sections[1].list) + Len(namesToAdd)
       > game.sections[1].limit + game.sections[1].backupLimit
  THEN game
  ELSE [game EXCEPT !.sections[1].list = AddAll(@, namesToAdd)]

\* namesToAdd.forEach(n => addToList(gid, 0, n, { uid }))
AppendBatch(game, namesToAdd) ==
  [game EXCEPT !.sections[1].list = AddAll(@, namesToAdd)]

\* The tail of the Join handler, from the duplicate check on.  map0 is
\* uidToNameMap after `if (userName) uidToNameMap.set(cacheKey, userName)`.
JoinFinish(gid, uid, namesToAdd, currentList, map0) ==
  LET realNames == NonAnon(namesToAdd)
      hasDuplicate == \E n \in Range(realNames) : Includes(currentList, n)
      hasSelfDuplicate == HasSelfDuplicate(realNames)
  IN IF namesToAdd # <<>> /\ (hasDuplicate \/ hasSelfDuplicate)
     THEN /\ ev' = Ev("Join", gid, uid, namesToAdd, <<Reply("dup", 0)>>)
          /\ uidToNameMap' = map0
          /\ UNCHANGED <<games, fileVars, csvVars>>
     ELSE IF namesToAdd # <<>> /\ gid \notin DOMAIN games
     THEN \* addToList reads games[gid].sections: TypeError, caught by the
          \* handler's try/catch, nothing further runs
          /\ ev' = Ev("Join", gid, uid, namesToAdd, <<>>)
          /\ uidToNameMap' = map0
          /\ UNCHANGED <<games, fileVars, csvVars>>
     ELSE
       LET G == IF gid \in DOMAIN games
                THEN Put(games, gid,
                         touchGame(AppendBatch(games[gid], namesToAdd), now))
                ELSE games
       IN /\ Len(List0(G, gid)) <= MaxLen
          /\ games' = G
          /\ uidToNameMap' =
               IF realNames = <<>> THEN map0
               ELSE [map0 EXCEPT ![Key(gid, uid)] = realNames[Len(realNames)]]
          /\ SetFS(saveGame(FS, G, gid, TRUE))
          /\ SetCS(saveCurrentListSnapshot(CS, G))
          /\ ev' = Ev("Join", gid, uid, namesToAdd,
                      IF gid \in DOMAIN G THEN <<Reply("list", 0)>> ELSE <<>>)

Rejected(op, gid, uid, kind, arg) ==
  /\ ev' = Ev(op, gid, uid, <<>>, <<Reply(kind, arg)>>)
  /\ UNCHANGED <<games, now, userNameCache, uidToNameMap, pend,
                 fileVars, csvVars, schedVars>>

\* 2. Join: +count with content "anon" (the text names the anonymous
\* keyword), "names" (explicit names) or "none" (nothing after the sigil)
Join(gid, uid, count, kind, names) ==
  IF gid \notin DOMAIN games THEN Rejected("Join", gid, uid, "noGame", 0)
  ELSE IF ~games[gid].active THEN Rejected("Join", gid, uid, "ended", 0)
  ELSE IF NotYetOpen(games[gid], now)
  THEN Rejected("Join", gid, uid, "notStarted", games[gid].scheduleTime)
  ELSE
    LET currentList == games[gid].sections[1].list
        key == Key(gid, uid)
        cached == key \in userNameCache
        mapped == uidToNameMap[key] # ""
    IN CASE kind = "anon" ->
              /\ JoinFinish(gid, uid, Placeholders(count), currentList, uidToNameMap)
              /\ UNCHANGED <<now, userNameCache, pend, schedVars>>
         [] kind = "names" ->
              /\ JoinFinish(gid, uid, names, currentList, uidToNameMap)
              /\ UNCHANGED <<now, userNameCache, pend, schedVars>>
         [] kind = "none" /\ count # 1 ->
              /\ JoinFinish(gid, uid, <<>>, currentList, uidToNameMap)
              /\ UNCHANGED <<now, userNameCache, pend, schedVars>>
         [] kind = "none" /\ count = 1 /\ cached ->
              /\ JoinFinish(gid, uid, <<DisplayName(uid)>>, currentList,
                            [uidToNameMap EXCEPT ![key] = DisplayName(uid)])
              /\ UNCHANGED <<now, userNameCache, pend, schedVars>>
         [] kind = "none" /\ count = 1 /\ ~cached /\ mapped
              /\ Includes(currentList, uidToNameMap[key]) ->
              /\ JoinFinish(gid, uid, <<uidToNameMap[key]>>, currentList,
                            uidToNameMap)
              /\ UNCHANGED <<now, userNameCache, pend, schedVars>>
         [] OTHER ->
              \* await getName(gid, uid): the lookup is sent
              /\ Len(pend) < MaxPending
              /\ pend' = Append(pend, [kind |-> "join", gid |-> gid, uid |-> uid,
                                       live |-> TRUE, cur |-> <<>>])
              /\ ev' = Ev("JoinWait", gid, uid, <<>>, <<>>)
              /\ UNCHANGED <<games, now, userNameCache, uidToNameMap,
                             fileVars, csvVars, schedVars>>

\* getName's outcome: the profile's display name (and it is cached), or on a
\* failed lookup the cached name, else the fallback name
LookupName(gid, uid, ok) ==
  IF ok \/ Key(gid, uid) \in userNameCache THEN DisplayName(uid)
  ELSE FallbackName

DropAt(P, i) == SubSeq(P, 1, i - 1) \o SubSeq(P, i + 1, Len(P))

\* the name lookup of a suspended Join returns
JoinResume(i, ok) ==
  /\ i \in 1..Len(pend)
  /\ pend[i].kind = "join"
  /\ LET p == pend[i]
         userName == LookupName(p.gid, p.uid, ok)
         currentList == IF p.live THEN List0(games, p.gid) ELSE p.cur
     IN /\ userNameCache' = IF ok THEN userNameCache \cup {Key(p.gid, p.uid)}
                            ELSE userNameCache
        /\ pend' = DropAt(pend, i)
        /\ JoinFinish(p.gid, p.uid, <<userName>>, currentList,
                      [uidToNameMap EXCEPT ![Key(p.gid, p.uid)] = userName])
        /\ UNCHANGED <<now, schedVars>>

\* The tail of the Leave handler for a named entry
LeaveFinish(gid, uid, name, anon, map0) ==
  IF gid \notin DOMAIN games
  THEN \* removeFromList / removeAnon read games[gid].sections: TypeError
       /\ ev' = Ev("Leave", gid, uid, <<name>>, <<>>)
       /\ uidToNameMap' = map0
       /\ UNCHANGED <<games, fileVars, csvVars>>
  ELSE LET G == Put(games, gid, IF anon THEN removeAnon(games[gid])
                                ELSE removeFromList(games[gid], name))
       IN /\ games' = G
          /\ uidToNameMap' = map0
          /\ SetFS(saveGame(FS, G, gid, TRUE))
          /\ SetCS(saveCurrentListSnapshot(CS, G))
          /\ ev' = Ev("Leave", gid, uid, <<name>>, <<Reply("list", 0)>>)

\* Leave: -N with kind "anon", "name" (explicit name) or "none"
Leave(gid, uid, kind, name) ==
  IF gid \notin DOMAIN games THEN Rejected("Leave", gid, uid, "noGame", 0)
  ELSE IF ~games[gid].active THEN Rejected("Leave", gid, uid, "ended", 0)
  ELSE IF NotYetOpen(games[gid], now)
  THEN Rejected("Leave", gid, uid, "notStarted", games[gid].scheduleTime)
  ELSE
    LET currentList == games[gid].sections[1].list
        key == Key(gid, uid)
        cached == key \in userNameCache
        mapped == uidToNameMap[key] # ""
    IN CASE kind = "anon" ->
              /\ LeaveFinish(gid, uid, ANON, TRUE, uidToNameMap)
              /\ UNCHANGED <<now, userNameCache, pend, schedVars>>
         [] kind = "name" ->
              /\ LeaveFinish(gid, uid, name, FALSE, uidToNameMap)
              /\ UNCHANGED <<now, userNameCache, pend, schedVars>>
         [] kind = "none" /\ cached ->
              /\ LeaveFinish(gid, uid, DisplayName(uid), FALSE, uidToNameMap)
              /\ UNCHANGED <<now, userNameCache, pend, schedVars>>
         [] kind = "none" /\ ~cached /\ mapped
              /\ Includes(currentList, uidToNameMap[key]) ->
              /\ LeaveFinish(gid, uid, uidToNameMap[key], FALSE, uidToNameMap)
              /\ UNCHANGED <<now, userNameCache, pend, schedVars>>
         [] OTHER ->
              /\ Len(pend) < MaxPending
              /\ pend' = Append(pend, [kind |-> "leave", gid |-> gid, uid |-> uid,
                                       live |-> TRUE, cur |-> <<>>])
              /\ ev' = Ev("LeaveWait", gid, uid, <<>>, <<>>)
              /\ UNCHANGED <<games, now, userNameCache, uidToNameMap,
                             fileVars, csvVars, schedVars>>

\* the name lookup of a suspended Leave returns
LeaveResume(i, ok) ==
  /\ i \in 1..Len(pend)
  /\ pend[i].kind = "leave"
  /\ LET p == pend[i]
         userName == LookupName(p.gid, p.uid, ok)
     IN /\ userNameCache' = IF ok THEN userNameCache \cup {Key(p.gid, p.uid)}
                            ELSE userNameCache
        /\ pend' = DropAt(pend, i)
        /\ LeaveFinish(p.gid, p.uid, userName, FALSE,
                       [uidToNameMap EXCEPT ![Key(p.gid, p.uid)] = userName])
        /\ UNCHANGED <<now, schedVars>>

\* 4. BulkList: the words after the keyword, appended to section 0
BulkList(gid, uid, namesToAdd) ==
  IF gid \notin DOMAIN games \/ ~games[gid].active
  THEN Rejected("BulkList", gid, uid, "noGame", 0)
  ELSE
    LET currentList == games[gid].sections[1].list
        hasDuplicate == \E n \in Range(namesToAdd) : Includes(currentList, n)
        hasSelfDuplicate == HasSelfDuplicate(namesToAdd)
        realNames == NonAnon(namesToAdd)
        G == Put(games, gid, AppendBatch(games[gid], namesToAdd))
    IN IF hasDuplicate \/ hasSelfDuplicate
       THEN /\ ev' = Ev("BulkList", gid, uid, namesToAdd, <<Reply("dup", 0)>>)
            /\ UNCHANGED <<games, now, userNameCache, uidToNameMap, pend,
                           fileVars, csvVars, schedVars>>
       ELSE /\ Len(List0(G, gid)) <= MaxLen
            /\ games' = G
            /\ uidToNameMap' =
                 IF realNames = <<>> THEN uidToNameMap
                 ELSE [uidToNameMap EXCEPT
                         ![Key(gid, uid)] = realNames[Len(realNames)]]
            /\ SetFS(saveGame(FS, G, gid, TRUE))
            /\ SetCS(saveCurrentListSnapshot(CS, G))
            /\ ev' = Ev("BulkList", gid, uid, namesToAdd, <<Reply("list", 0)>>)
            /\ UNCHANGED <<now, userNameCache, pend, schedVars>>

\* a handler that threw inside the try block: caught and logged, no reply
Threw(op, gid, uid) ==
  /\ ev' = Ev(op, gid, uid, <<>>, <<>>)
  /\ UNCHANGED <<games, now, userNameCache, uidToNameMap, pend,
                 fileVars, csvVars, schedVars>>

\* a section command that starts the section with an empty list
KeptList_empty(secs, idx) == <<>>

\* list: games[gid].sections[idx]?.list || []
KeptList(secs, idx) == IF idx + 1 <= Len(secs) THEN secs[idx + 1].list ELSE <<>>

\* 5. ConfigureSection: idx 0 or 1; limitP / backupP are parseInt(p[1]) and
\* parseInt(p[2]), <<>> standing for NaN
ConfigureSection(gid, uid, idx, limitP, backupP) ==
  IF gid \notin DOMAIN games THEN Threw("ConfigureSection", gid, uid)
  ELSE
    LET secs == games[gid].sections
        limit == IF limitP # <<>> /\ limitP[1] # 0 THEN limitP[1]
                 ELSE DefaultSectionLimit
        backupLimit == IF backupP # <<>> /\ backupP[1] # 0 THEN backupP[1] ELSE 0
        old == KeptList(secs, idx)
        sec == Section(limit, backupLimit, old)
        secs1 == IF idx + 1 <= Len(secs) THEN [secs EXCEPT ![idx + 1] = sec]
                 ELSE Append(secs, sec)
        G == Put(games, gid,
                 touchGame([games[gid] EXCEPT !.sections = secs1], now))
    IN /\ games' = G
       /\ SetFS(saveGame(FS, G, gid, TRUE))
       /\ ev' = Ev("ConfigureSection", gid, uid, <<>>, <<Reply("list", 0)>>)
       /\ UNCHANGED <<now, userNameCache, uidToNameMap, pend, csvVars, schedVars>>

\* Clear: games[gid].sections.forEach(s => s.list = [])
Clear(gid, uid) ==
  IF gid \notin DOMAIN games THEN Threw("Clear", gid, uid)
  ELSE
    LET G == Put(games, gid,
                 touchGame([games[gid] EXCEPT !.sections =
                    [k \in 1..Len(@) |-> [@[k] EXCEPT !.list = <<>>]]], now))
    IN /\ games' = G
       /\ pend' = Detach(pend, gid, List0(games, gid))
       /\ SetFS(saveGame(FS, G, gid, TRUE))
       /\ SetCS(saveCurrentListSnapshot(CS, G))
       /\ ev' = Ev("Clear", gid, uid, <<>>, <<Reply("cleared", 0)>>)
       /\ UNCHANGED <<now, userNameCache, uidToNameMap, schedVars>>

\* time passes
Tick ==
  /\ now < MaxTime
  /\ now' = now + 1
  /\ ev' = Ev("Tick", "", "", <<>>, <<>>)
  /\ UNCHANGED <<games, userNameCache, uidToNameMap, pend, fileVars,
                 csvVars, schedVars>>

\* ---------------------------------------------------- reminder scanner
MaxScans == 2      \* checkSchedules runs suspended at a push at one time

EmptyGames == [g \in {} |-> 0]

Due(G, gid, t) ==
  gid \in DOMAIN G /\ G[gid].scheduleTime # 0 /\ G[gid].scheduleTime <= t

RECURSIVE FirstDue(_, _, _)
\* the loop of checkSchedules up to the first game that is due: the rest of
\* `gids` from that game on, <<>> when no game is due
FirstDue(G, rest, t) ==
  IF rest = <<>> THEN <<>>
  ELSE IF Due(G, Head(rest), t) THEN rest
  ELSE FirstDue(G, Tail(rest), t)

\* Object.keys(games), g1 enumerated before g2
Keys(G) == Filter(GidOrder, DOMAIN G)

\* ScanRun without `delete g.scheduleTime`
ScanRun_keepSchedule(G, fs, sc) ==
  LET r == FirstDue(G, sc.rest, sc.now0)
  IN IF r = <<>>
     THEN [G |-> G, fs |-> fs, sc |-> [sc EXCEPT !.rest = <<>>, !.wait = ""]]
     ELSE [G |-> G, fs |-> saveGame(fs, G, Head(r), FALSE),
           sc |-> [sc EXCEPT !.rest = Tail(r), !.wait = Head(r)]]

\* One run of checkSchedules from its position sc.rest to its next await of
\* the push (or to its end): delete g.scheduleTime; await saveGame(gid);
\* then sendList(null, gid, ...) is called and the run waits for it.
ScanRun(G, fs, sc) ==
  LET r == FirstDue(G, sc.rest, sc.now0)
  IN IF r = <<>>
     THEN [G |-> G, fs |-> fs, sc |-> [sc EXCEPT !.rest = <<>>, !.wait = ""]]
     ELSE LET gid == Head(r)
              G1 == Put(G, gid, [G[gid] EXCEPT !.scheduleTime = 0])
          IN [G |-> G1, fs |-> saveGame(fs, G1, gid, FALSE),
              sc |-> [sc EXCEPT !.rest = Tail(r), !.wait = gid]]

NewScan(kind, t, G) == [kind |-> kind, now0 |-> t, rest |-> Keys(G), wait |-> ""]

CountPush(cnt, sc) ==
  IF sc.wait = "" THEN cnt ELSE [cnt EXCEPT ![sc.wait] = @ + 1]

ScanEv(op, sc, sched) ==
  Ev(op, sc.wait, "", <<>>,
     IF sc.wait = "" THEN <<>> ELSE <<Reply("push", sched)>>)

\* a run starts: the minute timer ("timer", guarded by checkingSchedules,
\* armed once the start-up scan has finished) or the administrator's forced
\* check ("forced", unguarded)
ScanStart(kind) ==
  /\ kind = "timer" =>
       (~checkingSchedules /\ \A i \in 1..Len(scans) : scans[i].kind # "eager")
  /\ LET res == ScanRun(games, FS, NewScan(kind, now, games))
     IN /\ res.sc.wait # "" => (Len(scans) < MaxScans
                                /\ scanPushes[res.sc.wait] < MaxScans)
        /\ games' = res.G
        /\ SetFS(res.fs)
        /\ scans' = IF res.sc.wait = "" THEN scans ELSE Append(scans, res.sc)
        /\ checkingSchedules' =
             IF kind = "timer" THEN res.sc.wait # "" ELSE checkingSchedules
        /\ scanPushes' = CountPush(scanPushes, res.sc)
        /\ ev' = ScanEv("ScanStart", res.sc,
                        IF res.sc.wait = "" THEN 0
                        ELSE games[res.sc.wait].scheduleTime)
  /\ UNCHANGED <<now, userNameCache, uidToNameMap, pend, csvVars>>

\* the push of run i returns (delivered, or failed: caught and logged) and
\* the run goes on with the rest of its gids
ScanPushDone(i, ok) ==
  /\ i \in 1..Len(scans)
  /\ LET res == ScanRun(games, FS, scans[i])
     IN /\ res.sc.wait # "" => scanPushes[res.sc.wait] < MaxScans
        /\ games' = res.G
        /\ SetFS(res.fs)
        /\ scans' = IF res.sc.wait = "" THEN DropAt(scans, i)
                    ELSE [scans EXCEPT ![i] = res.sc]
        /\ checkingSchedules' =
             IF scans[i].kind = "timer" THEN res.sc.wait # ""
             ELSE checkingSchedules
        /\ scanPushes' = CountPush(scanPushes, res.sc)
        /\ ev' = ScanEv(IF ok THEN "PushDelivered" ELSE "PushFailed", res.sc,
                        IF res.sc.wait = "" THEN 0
                        ELSE games[res.sc.wait].scheduleTime)
  /\ UNCHANGED <<now, userNameCache, uidToNameMap, pend, csvVars>>

\* ---------------------------------------------------- snapshot recovery
RECURSIVE UniqueFrom(_, _)
\* if (!list.includes(name)) list.push(name), over the rows in file order
UniqueFrom(acc, list) ==
  IF list = <<>> THEN acc
  ELSE UniqueFrom(IF Includes(acc, Head(list)) THEN acc
                  ELSE Append(acc, Head(list)), Tail(list))

SetMax(S) == CHOOSE m \in S : \A x \in S : x <= m

\* a row is <<gid, sectionIdx, name, limit, backupLimit>>; limit 0 and
\* backupLimit -1 stand for a column that does not parse to a number
RestoredSection(rows, gid, idx) ==
  LET Mine(r) == r[1] = gid /\ r[2] = idx
      rs == SelectSeq(rows, Mine)
      list == UniqueFrom(<<>>, [i \in 1..Len(rs) |-> rs[i][3]])
      limits == {rs[i][4] : i \in 1..Len(rs)} \cap {n \in Int : n > 0}
      backups == {rs[i][5] : i \in 1..Len(rs)} \cap {n \in Int : n >= 0}
  IN Section(IF limits # {} THEN SetMax(limits)
             ELSE IF Len(list) > DefaultLimit THEN Len(list) ELSE DefaultLimit,
             IF backups # {} THEN SetMax(backups) ELSE DefaultBackupLimit,
             list)

\* the registry rebuilt by restoreGamesFromCsv from the snapshot rows
restoreGamesFromCsv(rows, t) ==
  [g \in {rows[i][1] : i \in 1..Len(rows)} |->
     LET maxIdx == SetMax({rows[i][2] : i \in {j \in 1..Len(rows) : rows[j][1] = g}}
                          \cup {0})
     IN [active |-> TRUE, scheduleTime |-> 0,
         sections |-> [k \in 1..(maxIdx + 1) |-> RestoredSection(rows, g, k - 1)],
         anonymous |-> <<>>, startTime |-> t, lastActiveTime |-> t]]

\* The process stops at any moment and is started again without the remote
\* store: memory is gone, games.json is read (lost: the file did not survive
\* the redeployment), an empty registry is rebuilt from
\* data/registrations.csv and saved, and the eager scan runs.
Restart(lost) ==
  /\ ~USE_GITHUB
  /\ LET loaded == IF file.exists /\ ~lost THEN file.data ELSE EmptyGames
         rows == IF regCsvFile.exists THEN regCsvFile.rows ELSE <<>>
         restored == loaded = EmptyGames /\ rows # <<>>
         G0 == IF restored THEN restoreGamesFromCsv(rows, now) ELSE loaded
         fs0 == [file |-> IF restored THEN [exists |-> TRUE, data |-> G0]
                          ELSE IF lost THEN [exists |-> FALSE, data |-> EmptyGames]
                          ELSE file,
                 pendingSaves |-> {}, saveFileTimeout |-> FALSE,
                 isShuttingDown |-> FALSE, pool |-> pool, db |-> db,
                 dbLog |-> dbLog, timers |-> 0, fileWrite |-> IdleWrite]
         res == ScanRun(G0, fs0, NewScan("eager", now, G0))
     IN /\ res.sc.wait # "" => scanPushes[res.sc.wait] < MaxScans
        /\ games' = res.G
        /\ file' = res.fs.file
        /\ pendingSaves' = res.fs.pendingSaves
        /\ saveFileTimeout' = res.fs.saveFileTimeout
        /\ isShuttingDown' = FALSE
        /\ timers' = 0
        /\ fileWrite' = IdleWrite
        /\ UNCHANGED <<pool, db, dbUp, dbLog>>
        /\ scans' = IF res.sc.wait = "" THEN <<>> ELSE <<res.sc>>
        /\ checkingSchedules' = FALSE
        /\ scanPushes' = CountPush(scanPushes, res.sc)
        /\ ev' = ScanEv("Restart", res.sc,
                        IF res.sc.wait = "" THEN 0
                        ELSE G0[res.sc.wait].scheduleTime)
  /\ pend' = <<>>
  /\ userNameCache' = {}
  /\ uidToNameMap' = [k \in Gids \X Uids |-> ""]
  /\ UNCHANGED <<now, csvVars>>

\* -------------------------------------------------- remote store steps
\* the process runs until process.exit
Alive == proc.shutdown.pc # "exited"

\* a step of a store task: uid names the task, the reply its PUT count
StoreEv(op, p, n) == Ev(op, "", p, <<>>, <<Reply("puts", n)>>)

\* the start-up chain with the remote store: loadCsvFromGitHub returns, then
\* restoreGamesFromCsv (only into an empty registry) and the first scan
StartupLoadDone ==
  /\ Alive /\ USE_GITHUB /\ proc.startup.pc = "get"
  /\ LET st == LoadResult(ST)
         rows == IF st.content.nonEmpty THEN st.content.rows
                 ELSE IF st.file.exists THEN st.file.rows ELSE <<>>
         restored == games = EmptyGames /\ rows # <<>>
         G0 == IF restored THEN restoreGamesFromCsv(rows, now) ELSE games
         fs0 == IF restored
                THEN [FS EXCEPT !.file = [exists |-> TRUE, data |-> G0],
                                !.pendingSaves = {}]
                ELSE FS
         res == ScanRun(G0, fs0, NewScan("eager", now, G0))
     IN /\ res.sc.wait # "" => /\ scanPushes[res.sc.wait] < MaxScans
                               /\ Len(scans) < MaxScans
        /\ games' = res.G
        /\ SetFS(res.fs)
        /\ scans' = IF res.sc.wait = "" THEN scans ELSE Append(scans, res.sc)
        /\ scanPushes' = CountPush(scanPushes, res.sc)
        /\ ev' = ScanEv("StartupLoadDone", res.sc,
                        IF res.sc.wait = "" THEN 0
                        ELSE G0[res.sc.wait].scheduleTime)
        /\ SetStore([st EXCEPT !.proc.startup.pc = "idle"])
  /\ UNCHANGED <<now, userNameCache, uidToNameMap, pend, checkingSchedules>>

\* ensureRegCsvReady of the running write: its loadCsvFromGitHub returns and
\* the PUT is sent
ChainLoadDone ==
  /\ Alive /\ proc.chain.pc = "load"
  /\ LET st == EnsureHeader(LoadResult(ST))
     IN SetStore(Dispatch(st, "chain", st.proc.chain.rows, TRUE))
  /\ ev' = StoreEv("LoadDone", "chain", 0)
  /\ UNCHANGED <<games, now, userNameCache, uidToNameMap, pend, fileVars,
                 schedVars>>

\* writeCsvToGitHub: the PUT of task p is answered.  lost: the store applied
\* the write but the answer did not arrive within the request timeout.
PutDone(p, lost) ==
  /\ Alive /\ proc[p].pc = "put"
  /\ LET o == PutOutcome(ST, p)
         n == proc[p].puts
         rows == proc[p].rows
         bad == [ST EXCEPT !.log.allOk = FALSE]
     IN IF o = "ok" /\ ~lost
        THEN /\ SetStore(EndTask([Committed(ST, p) EXCEPT
                           !.sha = remote.sha + 1,
                           !.content = [nonEmpty |-> TRUE, rows |-> rows]], p))
             /\ ev' = StoreEv("PutOk", p, n)
        ELSE IF o = "ok"
        THEN /\ SetStore(EndTask(Fallback(Committed(bad, p), p), p))
             /\ ev' = StoreEv("PutFailed", p, n)
        ELSE IF o = "conflict" /\ proc[p].allowRetry
        THEN /\ ~lost
             /\ SetStore([bad EXCEPT !.proc[p].pc = "reload",
                                     !.proc[p].reloads = @ + 1,
                                     !.proc[p].conflict = TRUE])
             /\ ev' = StoreEv("PutConflict", p, n)
        ELSE /\ ~lost
             /\ SetStore(EndTask(Fallback(bad, p), p))
             /\ ev' = StoreEv("PutFailed", p, n)
  /\ UNCHANGED <<games, now, userNameCache, uidToNameMap, pend, fileVars,
                 schedVars>>

\* the conflict branch: loadCsvFromGitHub returns (its errors are caught)
\* and the write is sent once more
ReloadDone(p) ==
  /\ Alive /\ proc[p].pc = "reload"
  /\ SetStore(RetryWrite(LoadResult(ST), p))
  /\ ev' = StoreEv("ReloadDone", p, proc[p].puts)
  /\ UNCHANGED <<games, now, userNameCache, uidToNameMap, pend, fileVars,
                 schedVars>>

\* gracefulShutdown up to its first wait on the remote store: the flag, the
\* flush of games.json, `await regCsvWriteChain` (the writes chained so far)
ShutdownStart ==
  /\ Alive /\ proc.shutdown.pc = "idle"
  /\ LET fs == flushFileSave(FS, games)
         outstanding == (IF proc.chain.pc = "idle" THEN 0 ELSE 1)
                        + Len(regCsvWriteChain)
     IN /\ file' = fs.file
        /\ pendingSaves' = fs.pendingSaves
        /\ saveFileTimeout' = FALSE
        /\ isShuttingDown' = TRUE
        /\ timers' = IF saveFileTimeout THEN timers - 1 ELSE timers
        /\ fileWrite' = fs.fileWrite
        /\ UNCHANGED <<pool, db, dbUp, dbLog>>
        /\ SetStore(IF outstanding = 0 THEN ShutdownContinue(ST)
                    ELSE [ST EXCEPT !.proc.shutdown.pc = "wait",
                                    !.proc.shutdown.wait = outstanding])
  /\ ev' = StoreEv("Shutdown", "shutdown", 0)
  /\ UNCHANGED <<games, now, userNameCache, uidToNameMap, pend, schedVars>>

\* the network between the process and the remote store goes down or up
NetChange ==
  /\ reachable' = ~reachable
  /\ ev' = StoreEv("NetChange", "", 0)
  /\ UNCHANGED <<games, now, userNameCache, uidToNameMap, pend, fileVars,
                 schedVars, USE_GITHUB, regCsvWriteChain, regCsvSha,
                 regCsvContent, regCsvFile, remote, proc, csvLog>>

\* another writer commits to the remote blob
ExternalCommit ==
  /\ remote.sha < MaxSha
  /\ remote' = [exists |-> TRUE, rows |-> <<>>, sha |-> remote.sha + 1]
  /\ csvLog' = [csvLog EXCEPT !.foreign = TRUE]
  /\ ev' = StoreEv("ExternalCommit", "", 0)
  /\ UNCHANGED <<games, now, userNameCache, uidToNameMap, pend, fileVars,
                 schedVars, USE_GITHUB, regCsvWriteChain, regCsvSha,
                 regCsvContent, regCsvFile, reachable, proc>>

\* ------------------------------------------------------ database steps
\* the start-up chain with a database connection: the CREATE TABLE query is
\* answered.  Success: loadGames copies the rows of the table into `games`.
\* Failure: pool = null and loadGames reads games.json.  Then the recovery
\* from the snapshot (into an empty registry) and the first scan.
DbStartupDone ==
  /\ ~USE_GITHUB /\ proc.startup.pc = "dbinit"
  /\ LET ok == dbUp
         loaded == IF ok
                   THEN [g \in DOMAIN games \cup DOMAIN db |->
                           IF g \in DOMAIN db THEN db[g] ELSE games[g]]
                   ELSE IF file.exists THEN file.data ELSE games
         rows == IF regCsvFile.exists THEN regCsvFile.rows ELSE <<>>
         restored == loaded = EmptyGames /\ rows # <<>>
         G0 == IF restored THEN restoreGamesFromCsv(rows, now) ELSE loaded
         fs0 == [FS EXCEPT !.pool = ok,
                           !.dbLog.failed = @ \/ ~ok]
         fs1 == IF ~restored THEN fs0
                ELSE IF ok
                THEN [fs0 EXCEPT !.db = G0]
                ELSE [fs0 EXCEPT !.file = [exists |-> TRUE, data |-> G0],
                                 !.pendingSaves = {}]
         res == ScanRun(G0, fs1, NewScan("eager", now, G0))
     IN /\ res.sc.wait # "" => /\ scanPushes[res.sc.wait] < MaxScans
                               /\ Len(scans) < MaxScans
        /\ games' = res.G
        /\ SetFS(res.fs)
        /\ scans' = IF res.sc.wait = "" THEN scans ELSE Append(scans, res.sc)
        /\ scanPushes' = CountPush(scanPushes, res.sc)
        /\ ev' = ScanEv("DbStartupDone", res.sc,
                        IF res.sc.wait = "" THEN 0
                        ELSE G0[res.sc.wait].scheduleTime)
  /\ proc' = [proc EXCEPT !.startup.pc = "idle"]
  /\ UNCHANGED <<now, userNameCache, uidToNameMap, pend, checkingSchedules,
                 USE_GITHUB, regCsvWriteChain, regCsvSha, regCsvContent,
                 regCsvFile, remote, reachable, csvLog>>

\* the database goes down or comes back
DbChange ==
  /\ dbUp' = ~dbUp
  /\ ev' = Ev("DbChange", "", "", <<>>, <<>>)
  /\ UNCHANGED <<games, now, userNameCache, uidToNameMap, pend, csvVars,
                 schedVars, file, pendingSaves, saveFileTimeout, timers,
                 fileWrite, isShuttingDown, pool, db, dbLog>>

\* ------------------------------------------------- roster specification
CmdGids == {"g1"}           \* conversations that send commands
Limits == {1}               \* capacity values typed in commands
Backups == {0}              \* waitlist values typed in commands
Opt(S) == {<<>>} \cup {<<x>> : x \in S}
NameLists == {<<>>, <<"A">>, <<"B">>, <<"A", "B">>, <<"A", "A">>}

\* what every start has in common
InitBase ==
  /\ userNameCache = {}
  /\ uidToNameMap = [k \in Gids \X Uids |-> ""]
  /\ pend = <<>>
  /\ ev = Ev("init", "", "", <<>>, <<>>)
  /\ pendingSaves = {}
  /\ saveFileTimeout = FALSE
  /\ timers = 0
  /\ fileWrite = IdleWrite
  /\ isShuttingDown = FALSE
  /\ db = EmptyGames
  /\ dbUp = TRUE
  /\ dbLog = [failed |-> FALSE, attempts |-> 0]
  /\ regCsvWriteChain = <<>>
  /\ regCsvSha = 0
  /\ regCsvContent = [nonEmpty |-> FALSE, rows |-> <<>>]
  /\ csvLog = [any |-> FALSE, lastEnq |-> <<>>, allOk |-> TRUE,
               foreign |-> FALSE]
  /\ scans = <<>>
  /\ checkingSchedules = FALSE
  /\ scanPushes = [g \in Gids |-> 0]

\* no stored data
InitCommon ==
  /\ InitBase
  /\ now = 0
  /\ games = EmptyGames
  /\ file = [exists |-> FALSE, data |-> EmptyGames]
  /\ regCsvFile = [exists |-> FALSE, rows |-> <<>>]

\* the process after start-up with no stored data and no remote store
Init ==
  /\ InitCommon
  /\ USE_GITHUB = FALSE
  /\ pool = FALSE
  /\ remote = [exists |-> FALSE, rows |-> <<>>, sha |-> 0]
  /\ reachable = TRUE
  /\ proc = [p \in Procs |-> EmptyProc]

\* the roster commands of one conversation, without a time field
Next ==
  \/ \E gid \in CmdGids, uid \in Uids :
       \/ \E limit \in Limits, backupLimit \in Backups, names \in NameLists,
             anonCount \in 0..1 :
            /\ Len(names) + anonCount <= MaxLen
            /\ Create(gid, uid, limit, backupLimit, names, anonCount, 0,
                      names # <<>>, <<>>)
       \/ \E listOpt \in Opt(NameLists \cup {<<ANON, ANON>>}) :
            Modify(gid, uid, FALSE, <<>>, <<>>, listOpt)
       \/ \E count \in 1..MaxCount : Join(gid, uid, count, "anon", <<>>)
       \/ \E names \in NameLists \ {<<>>} : Join(gid, uid, 1, "names", names)
       \/ \E count \in 1..MaxCount : Join(gid, uid, count, "none", <<>>)
       \/ Leave(gid, uid, "anon", ANON)
       \/ \E name \in Names : Leave(gid, uid, "name", name)
       \/ Leave(gid, uid, "none", "")
       \/ \E names \in NameLists \ {<<>>} : BulkList(gid, uid, names)
       \/ \E limitP \in Opt(Limits) : ConfigureSection(gid, uid, 0, limitP, <<>>)
       \/ Clear(gid, uid)
       \/ Delete(gid, uid)
  \/ \E i \in 1..MaxPending : JoinResume(i, TRUE)
  \/ \E i \in 1..MaxPending : LeaveResume(i, TRUE)
  \/ FileTimerFire
  \/ FileWriteDone
  \/ \E lost \in BOOLEAN : Restart(lost)

Spec == Init /\ [][Next]_vars

\* ------------------------------------------------ database specification
\* the process after construction with DATABASE_URL set: the connection is
\* in use and the CREATE TABLE query of the start-up chain is in flight
DbInit ==
  /\ InitCommon
  /\ USE_GITHUB = FALSE
  /\ pool = TRUE
  /\ remote = [exists |-> FALSE, rows |-> <<>>, sha |-> 0]
  /\ reachable = TRUE
  /\ proc = [p \in Procs |->
               IF p = "startup" THEN [EmptyProc EXCEPT !.pc = "dbinit"]
               ELSE EmptyProc]

\* commands that save the registry, the database and the debounce timer
DbNext ==
  \/ Create("g1", "u1", 1, 0, <<>>, 0, 0, FALSE, <<>>)
  \/ \E name \in Names : Join("g1", "u1", 1, "names", <<name>>)
  \/ \E name \in Names : Leave("g1", "u1", "name", name)
  \/ \E limitP \in Opt(Limits) : ConfigureSection("g1", "u1", 0, limitP, <<>>)
  \/ Delete("g1", "u1")
  \/ DbStartupDone
  \/ DbChange
  \/ FileTimerFire
  \/ FileWriteDone

DbSpec == DbInit /\ [][DbNext]_vars

\* ------------------------------------------- remote store specification
\* the process after start-up with the remote store configured: the load of
\* the remote blob is in flight; the blob may exist from an earlier run
CsvInit ==
  /\ InitCommon
  /\ USE_GITHUB = TRUE
  /\ pool = FALSE
  /\ remote \in {[exists |-> FALSE, rows |-> <<>>, sha |-> 0],
                 [exists |-> TRUE, rows |-> <<>>, sha |-> 1]}
  /\ reachable \in BOOLEAN
  /\ proc = [p \in Procs |->
               IF p = "startup" THEN [EmptyProc EXCEPT !.pc = "get"]
               ELSE EmptyProc]

\* commands that chain snapshot writes, the store tasks, shutdown and the
\* environment of the remote store
CsvNext ==
  \/ /\ Alive
     /\ \/ Create("g1", "u1", 1, 0, <<>>, 0, 0, FALSE, <<>>)
        \/ Join("g1", "u1", 1, "names", <<"A">>)
  \/ StartupLoadDone
  \/ ChainLoadDone
  \/ \E p \in {"chain", "shutdown"}, lost \in BOOLEAN : PutDone(p, lost)
  \/ \E p \in {"chain", "shutdown"} : ReloadDone(p)
  \/ ShutdownStart
  \/ NetChange
  \/ ExternalCommit

CsvSpec == CsvInit /\ [][CsvNext]_vars

\* ------------------------------------------------------ roster properties
AcceptedReply == <<Reply("list", 0)>>
DupReply == <<Reply("dup", 0)>>

\* C1: in every reachable state the non-placeholder entries of every section
\* list of every game are pairwise distinct.
C1_ListsUnique ==
  \A gid \in DOMAIN games : \A k \in 1..Len(games[gid].sections) :
    ~HasSelfDuplicate(NonAnon(games[gid].sections[k].list))

\* a nameless Join was answered with the list although its name was already
\* on the list: the list was replaced while the lookup was awaited, the
\* duplicate check read the old array and addToList's own test kept the
\* live list free of the second copy
C1_Witness ==
  /\ ev.op = "Join" /\ ev.names = <<"A">> /\ ev.replies = AcceptedReply
  /\ List0(games, "g1") = <<"A", "B">>

\* C2: a Join or BulkList whose batch of real names contains a name that is
\* on section 0's list, or the same name twice, is answered with the one
\* duplicate error and section 0's list is the same after the command.
C2_DuplicateBatchRejected ==
  [][(/\ ev'.op \in {"Join", "BulkList"}
      /\ ev'.gid \in DOMAIN games
      /\ LET real == NonAnon(ev'.names)
         IN \/ HasSelfDuplicate(real)
            \/ \E n \in Range(real) : Includes(List0(games, ev'.gid), n))
     => (/\ ev'.replies = DupReply
         /\ List0(games', ev'.gid) = List0(games, ev'.gid))]_vars

Scheds == 0..MaxTime        \* time fields: 0 for none

\* games with a time field in two conversations, the clock, the scans and
\* the debounce timer
SchedNext ==
  \/ \E gid \in Gids, uid \in Uids, sched \in Scheds :
       /\ gid = "g2" => "g1" \in DOMAIN games
       /\ Create(gid, uid, 1, 0, <<>>, 0, sched, FALSE, <<>>)
  \/ Tick
  \/ \E kind \in {"timer", "forced"} : ScanStart(kind)
  \/ \E i \in 1..MaxScans, ok \in BOOLEAN : ScanPushDone(i, ok)
  \/ FileTimerFire
  \/ FileWriteDone

SchedSpec == Init /\ [][SchedNext]_vars

\* the same, with the process stopping at any moment and starting again
\* from games.json
CrashNext ==
  \/ SchedNext
  \/ Restart(FALSE)

CrashSpec == Init /\ [][CrashNext]_vars

\* --------------------------------------------- gating specification
\* one conversation: games with a time field, + and - commands, the clock
\* and the minute timer's scans
GateNext ==
  \/ \E gid \in CmdGids, uid \in Uids :
       \/ \E sched \in Scheds, names \in {<<>>, <<"B">>} :
            Create(gid, uid, 1, 0, names, 0, sched, names # <<>>, <<>>)
       \/ Join(gid, uid, 1, "none", <<>>)
       \/ Join(gid, uid, 1, "names", <<"B">>)
       \/ \E count \in 1..MaxCount : Join(gid, uid, count, "anon", <<>>)
       \/ Leave(gid, uid, "none", "")
       \/ Leave(gid, uid, "name", "B")
       \/ Leave(gid, uid, "anon", ANON)
  \/ \E i \in 1..MaxPending : JoinResume(i, TRUE)
  \/ \E i \in 1..MaxPending : LeaveResume(i, TRUE)
  \/ Tick
  \/ ScanStart("timer")
  \/ \E i \in 1..MaxScans, ok \in BOOLEAN : ScanPushDone(i, ok)

GateSpec == Init /\ [][GateNext]_vars

\* ----------------------------------------------- reminder properties
ScanOps == {"ScanStart", "PushDelivered", "PushFailed", "Restart"}

\* C4: a scan that meets a game whose scheduleTime is set and not later than
\* the scan's clock reading clears the scheduleTime and attempts one push for
\* it; no scan attempts a second push for the game before a Create sets a new
\* schedule, and a failed push does not bring the schedule back.
C4_OnePushPerSchedule ==
  [][/\ \A gid \in Gids : scanPushes'[gid] <= 1
     /\ (ev'.op \in ScanOps /\ ev'.gid # "") =>
          /\ ev'.gid \in DOMAIN games /\ ev'.gid \in DOMAIN games'
          /\ games[ev'.gid].scheduleTime # 0
          /\ games[ev'.gid].scheduleTime <= now
          /\ games'[ev'.gid].scheduleTime = 0
          /\ ev'.replies = <<Reply("push", games[ev'.gid].scheduleTime)>>
          /\ scanPushes'[ev'.gid] = scanPushes[ev'.gid] + 1
     /\ (ev'.op = "ScanStart"
         /\ \E gid \in DOMAIN games :
              games[gid].scheduleTime # 0 /\ games[gid].scheduleTime <= now)
        => ev'.gid # ""
     /\ ev'.op \in {"PushFailed", "PushDelivered"} =>
          \A gid \in DOMAIN games :
            games[gid].scheduleTime = 0 => games'[gid].scheduleTime = 0]_vars

\* a later scan found the game with its schedule cleared and pushed nothing
C4_Witness ==
  /\ ev.op = "ScanStart" /\ ev.gid = "" /\ scans = <<>>
  /\ scanPushes["g1"] = 1
  /\ "g1" \in DOMAIN games /\ games["g1"].scheduleTime = 0

\* C5: when a scan dispatches the push for a game, games.json already holds
\* the game without its scheduleTime, and the eager scan of a restart never
\* pushes again for a game whose reminder a scan has already pushed.
C5_ClearedScheduleDurableBeforePush ==
  [][/\ (ev'.op \in ScanOps /\ ev'.gid # "") =>
          /\ file'.exists /\ ev'.gid \in DOMAIN file'.data
          /\ file'.data[ev'.gid].scheduleTime = 0
     /\ (ev'.op = "Restart" /\ ev'.gid # "") => scanPushes[ev'.gid] = 0]_vars

\* ------------------------------------------------- gating properties
\* C6: a Join or Leave that arrives while the game's scheduleTime is set and
\* later than the clock is answered with the scheduled time and changes no
\* list; one that arrives when the clock has reached the scheduleTime is not
\* answered with the not-started reply.
C6_GatedUntilScheduleTime ==
  [][(/\ ev'.op \in {"Join", "Leave", "JoinWait", "LeaveWait"}
      /\ Len(pend') >= Len(pend)
      /\ ev'.gid \in DOMAIN games /\ games[ev'.gid].active)
     => LET g == games[ev'.gid]
        IN IF g.scheduleTime # 0 /\ g.scheduleTime > now
           THEN /\ ev'.replies = <<Reply("notStarted", g.scheduleTime)>>
                /\ games' = games
           ELSE \A i \in 1..Len(ev'.replies) :
                  ev'.replies[i].kind # "notStarted"]_vars

\* a Leave for a name on the list, turned away before the scheduled time
C6_Witness ==
  /\ ev.op = "Leave" /\ ev.replies = <<Reply("notStarted", 1)>>
  /\ "g1" \in DOMAIN games /\ games["g1"].sections[1].list = <<"B">>
  /\ games["g1"].scheduleTime = 1 /\ now = 0

\* ------------------------------------------------ remote store properties
Writers == {"chain", "shutdown"}
InFlight == {p \in Writers : proc[p].pc = "put"}

\* C7: at any moment at most one PUT to the remote store is in flight, the
\* conflict retry and the final write of shutdown included.
C7_OnePutInFlight == Cardinality(InFlight) <= 1

\* the chain is empty, no write is running and no final write is pending
Drained ==
  /\ regCsvWriteChain = <<>>
  /\ proc.chain.pc = "idle"
  /\ proc.shutdown.pc \in {"idle", "exited"}

\* C8: snapshot writes are applied in the order they were chained: when every
\* PUT so far has succeeded, no other writer has committed and the chain has
\* drained, the remote blob holds the snapshot that was chained last.
C8_RemoteIsLastEnqueued ==
  (csvLog.any /\ csvLog.allOk /\ ~csvLog.foreign /\ Drained)
    => (remote.exists /\ remote.rows = csvLog.lastEnq)

C8_Witness ==
  /\ csvLog.any /\ csvLog.allOk /\ ~csvLog.foreign /\ Drained
  /\ remote.sha >= 3
  /\ ev.op = "PutOk" /\ ev.uid = "chain"
  /\ Len(remote.rows) = 1

\* C9: one write sends at most two PUTs, each with the version tag observed
\* last; the second is sent only after the first met a version conflict and
\* after exactly one re-read; a write that fails (a failed retry, or a first
\* failure that is no conflict) is saved to the local file copy and ends.
C9_AtMostOneRetry ==
  [][/\ \A p \in Writers :
          /\ proc'[p].puts <= 2
          /\ proc'[p].reloads <= 1
          /\ proc'[p].puts = 2 =>
               (proc'[p].conflict /\ proc'[p].reloads = 1)
          /\ (proc'[p].pc = "put" /\ proc[p] # proc'[p]) =>
               proc'[p].sha = regCsvSha'
     /\ ev'.op = "PutFailed" =>
          /\ regCsvFile' = [exists |-> TRUE, rows |-> proc[ev'.uid].rows]
          /\ (proc[ev'.uid].puts = 1 => PutOutcome(ST, ev'.uid) # "conflict")
          /\ (ev'.uid = "chain" /\ proc'.chain.pc # "idle") =>
               (proc'.chain.puts <= 1 /\ Len(regCsvWriteChain') <
                                         Len(regCsvWriteChain))
          /\ ev'.uid = "shutdown" => proc'.shutdown.pc = "exited"
    ]_vars

C9_Witness ==
  /\ ev.op = "PutFailed" /\ ev.uid = "chain"
  /\ ev.replies = <<Reply("puts", 2)>>
  /\ regCsvFile.exists /\ Len(regCsvFile.rows) = 1
  /\ proc.chain.pc = "idle"

\* C10: a failed remote write does not switch the remote store off: a write
\* whose PUT the reachable store answers succeeds and leaves the remote blob
\* equal to its snapshot, also after a failed load at start-up (no other
\* writer has committed to the blob).
C10_RecoversWhenReachable ==
  [][(ev'.uid = "chain" /\ ev'.op \in {"PutOk", "PutFailed"} /\ reachable
      /\ ~csvLog.foreign /\ (ev'.op = "PutFailed" => remote' = remote))
       => (ev'.op = "PutOk" /\ remote'.exists
           /\ remote'.rows = proc.chain.rows)]_vars

C12_OneTimerOneWrite ==
  [][/\ timers' <= 1
     /\ (ev'.op = "FileTimer" /\ fileWrite.waiting # {}) =>
          /\ fileWrite'.busy
          /\ fileWrite'.data = games
          /\ fileWrite'.waiting = {}
    ]_vars

\* C13: for Create, Modify, Join, Leave and Clear the registry has been
\* written to the full-state store when the reply is sent: the row of the
\* game is in the database, or games.json holds the registry and no save
\* request is left to the debounce timer.
ImmediateOps == {"Create", "Modify", "Join", "Leave", "Clear"}
DoneReplies == {"list", "scheduled", "cleared"}

C13_WrittenBeforeReply ==
  [][(/\ ev'.op \in ImmediateOps
      /\ ev'.replies # <<>>
      /\ ev'.replies[1].kind \in DoneReplies)
       => /\ ev'.gid \in DOMAIN games'
          /\ IF pool /\ dbUp
             THEN ev'.gid \in DOMAIN db' /\ db'[ev'.gid] = games'[ev'.gid]
             ELSE file' = [exists |-> TRUE, data |-> games']
                  /\ pendingSaves' = {}
    ]_vars

C13_Witness ==
  /\ ev.op = "Leave" /\ ev.replies = AcceptedReply
  /\ file = [exists |-> TRUE, data |-> games]
  /\ pendingSaves = {} /\ timers = 1

\* ------------------------------------------- the snapshot as CSV text
\* A text is a sequence of one-character strings.  TextOf gives the
\* characters of the identifiers and names that occur in the registries
\* below; StringOf puts a text back together.
TextOf ==
  [s \in {"g1", "g2", "A", "B", "A B", "A,B", "A\"B"} |->
     CASE s = "g1" -> <<"g", "1">>
       [] s = "g2" -> <<"g", "2">>
       [] s = "A" -> <<"A">>
       [] s = "B" -> <<"B">>
       [] s = "A B" -> <<"A", " ", "B">>
       [] s = "A,B" -> <<"A", ",", "B">>
       [] s = "A\"B" -> <<"A", "\"", "B">>]

RECURSIVE StringOf(_)
StringOf(t) == IF t = <<>> THEN "" ELSE Head(t) \o StringOf(Tail(t))

Digit == <<"0", "1", "2", "3", "4", "5", "6", "7", "8", "9">>

\* String(n) for 0 <= n < 100
NumText(n) ==
  IF n < 10 THEN <<Digit[n + 1]>> ELSE <<Digit[(n \div 10) + 1], Digit[(n % 10) + 1]>>

RECURSIVE Doubled(_)
\* s.replace(/"/g, '""')
Doubled(t) ==
  IF t = <<>> THEN <<>>
  ELSE (IF Head(t) = "\"" THEN <<"\"", "\"">> ELSE <<Head(t)>>) \o Doubled(Tail(t))

csvEscape(t) ==
  IF \E i \in 1..Len(t) : t[i] \in {"\"", ",", "\r", "\n"}
  THEN <<"\"">> \o Doubled(t) \o <<"\"">>
  ELSE t

RECURSIVE JoinText(_, _)
\* Array.prototype.join
JoinText(parts, sep) ==
  IF parts = <<>> THEN <<>>
  ELSE IF Len(parts) = 1 THEN parts[1]
  ELSE parts[1] \o <<sep>> \o JoinText(Tail(parts), sep)

HeaderText ==
  <<"g", "i", "d", ",", "s", "e", "c", "t", "i", "o", "n", "I", "d", "x", ",",
    "n", "a", "m", "e", ",", "l", "i", "m", "i", "t", ",",
    "b", "a", "c", "k", "u", "p", "L", "i", "m", "i", "t">>

\* one pushed row: the five fields escaped and joined by commas;
\* String(section.limit || '') is empty for a limit of 0
RowText(row) ==
  JoinText(<<csvEscape(TextOf[row[1]]), csvEscape(NumText(row[2])),
             csvEscape(TextOf[row[3]]),
             csvEscape(IF row[4] = 0 THEN <<>> ELSE NumText(row[4])),
             csvEscape(NumText(row[5]))>>, ",")

\* csvContent of saveCurrentListSnapshot as text
CsvText(rows) ==
  HeaderText \o <<"\n">> \o
  (IF rows # <<>>
   THEN JoinText([i \in 1..Len(rows) |-> RowText(rows[i])], "\n") \o <<"\n">>
   ELSE <<>>)

\* String.prototype.trim: the text from the first to the last character
\* that is not blank
Trim(t) ==
  LET solid == {i \in 1..Len(t) : t[i] \notin {" ", "\t", "\n", "\r"}}
  IN IF solid = {} THEN <<>>
     ELSE SubSeq(t, CHOOSE i \in solid : \A j \in solid : i <= j,
                    CHOOSE i \in solid : \A j \in solid : j <= i)

\* split(/\r?\n/): the pieces between the line feeds, a carriage return
\* before a line feed belonging to the separator
SplitLines(t) ==
  LET feeds == {i \in 1..Len(t) : t[i] = "\n"}
      Feed(k) == IF k = 0 THEN 0
                 ELSE IF k > Cardinality(feeds) THEN Len(t) + 1
                 ELSE CHOOSE i \in feeds : Cardinality({j \in feeds : j < i}) = k - 1
      Last(k) == LET e == Feed(k) - 1
                 IN IF Feed(k) <= Len(t) /\ e > Feed(k - 1) /\ t[e] = "\r"
                    THEN e - 1 ELSE e
  IN [k \in 1..(Cardinality(feeds) + 1) |-> SubSeq(t, Feed(k - 1) + 1, Last(k))]

RECURSIVE parseCsvLine(_, _, _)
\* the columns of one line; current and inQuotes as in the loop
parseCsvLine(line, current, inQuotes) ==
  IF line = <<>> THEN <<current>>
  ELSE LET ch == Head(line)
       IN IF inQuotes
          THEN IF ch = "\"" /\ Len(line) > 1 /\ line[2] = "\""
               THEN parseCsvLine(Tail(Tail(line)), Append(current, "\""), TRUE)
               ELSE IF ch = "\"" THEN parseCsvLine(Tail(line), current, FALSE)
               ELSE parseCsvLine(Tail(line), Append(current, ch), TRUE)
          ELSE IF ch = "," THEN <<current>> \o parseCsvLine(Tail(line), <<>>, FALSE)
               ELSE IF ch = "\"" THEN parseCsvLine(Tail(line), current, TRUE)
               ELSE parseCsvLine(Tail(line), Append(current, ch), FALSE)

\* toLowerCase on the letters of the header
Lower(t) ==
  [i \in 1..Len(t) |-> IF t[i] = "I" THEN "i" ELSE IF t[i] = "L" THEN "l" ELSE t[i]]

\* Array.prototype.indexOf, 1-based; 0 when absent
IndexOf(cols, x) ==
  IF \E i \in 1..Len(cols) : cols[i] = x
  THEN CHOOSE i \in 1..Len(cols) : cols[i] = x /\ \A j \in 1..(i - 1) : cols[j] # x
  ELSE 0

\* cols[idx] || dflt
Col(cols, idx, dflt) ==
  IF idx >= 1 /\ idx <= Len(cols) /\ cols[idx] # <<>> THEN cols[idx] ELSE dflt

DigitValue(c) == (CHOOSE i \in 1..10 : Digit[i] = c) - 1

RECURSIVE DigitsValue(_, _)
DigitsValue(t, acc) ==
  IF t = <<>> \/ Head(t) \notin Range(Digit) THEN acc
  ELSE DigitsValue(Tail(t), 10 * acc + DigitValue(Head(t)))

\* parseInt(text, 10) of an unsigned text; -1 stands for NaN
ParseInt(t) ==
  LET u == Trim(t)
  IN IF u = <<>> \/ Head(u) \notin Range(Digit) THEN -1 ELSE DigitsValue(u, 0)

\* the rows restoreGamesFromCsv reads from the text: the lines after the
\* header that have a gid and a name, as <<gid, sectionIdx, name, limit,
\* backupLimit>> with limit 0 / backupLimit -1 for a column without a number
ParseCsv(content) ==
  LET lines == SplitLines(Trim(content))
      hdr == parseCsvLine(lines[1], <<>>, FALSE)
      header == [i \in 1..Len(hdr) |-> Lower(Trim(hdr[i]))]
      idxGid == IndexOf(header, <<"g", "i", "d">>)
      idxSection == IndexOf(header, Lower(SubSeq(HeaderText, 5, 14)))
      idxName == IndexOf(header, <<"n", "a", "m", "e">>)
      idxLimit == IndexOf(header, <<"l", "i", "m", "i", "t">>)
      idxBackup == IndexOf(header, Lower(SubSeq(HeaderText, 27, 37)))
      RowOf(line) ==
        LET cols == parseCsvLine(Trim(line), <<>>, FALSE)
            sectionIdx == ParseInt(Col(cols, idxSection, <<"0">>))
            rawLimit == IF idxLimit = 0 THEN -1 ELSE ParseInt(Col(cols, idxLimit, <<>>))
            rawBackup == IF idxBackup = 0 THEN -1 ELSE ParseInt(Col(cols, idxBackup, <<>>))
        IN <<StringOf(Trim(Col(cols, idxGid, <<>>))),
             IF sectionIdx >= 0 THEN sectionIdx ELSE 0,
             StringOf(Trim(Col(cols, idxName, <<>>))),
             IF rawLimit > 0 THEN rawLimit ELSE 0,
             rawBackup>>
      Kept(r) == r[1] # "" /\ r[3] # ""
  IN IF Len(lines) <= 1 THEN <<>>
     ELSE SelectSeq([i \in 1..(Len(lines) - 1) |-> RowOf(lines[i + 1])], Kept)

\* ------------------------------------------- snapshot round trip
\* The registry is any of a family of registries the handlers can build;
\* the snapshot text is written, the process is started again without
\* games.json, and the registry is rebuilt from the text.  In this
\* specification regCsvFile.rows holds the content of the file as text.
RtLists ==
  {<<>>, <<"A">>, <<ANON>>, <<"A", "B">>, <<"B", "A">>, <<"A", ANON, "B">>,
   <<ANON, ANON>>, <<"A B">>, <<"A,B">>, <<"A\"B", "B">>}

RtGames ==
  {[active |-> TRUE, scheduleTime |-> 0, sections |-> secs,
    anonymous |-> anon, startTime |-> 0, lastActiveTime |-> 0] :
     secs \in {<<Section(limit, backupLimit, l1)>> :
                 limit \in {3, DefaultLimit}, backupLimit \in {0, DefaultBackupLimit},
                 l1 \in RtLists}
              \cup {<<Section(DefaultLimit, DefaultBackupLimit, l1),
                      Section(DefaultSectionLimit, 0, l2)>> :
                      l1 \in RtLists, l2 \in RtLists},
     anon \in {<<>>, <<"B">>}}

RtRegistries ==
  {G \in UNION {[D -> RtGames] : D \in SUBSET Gids} :
     /\ \A g \in DOMAIN G : Range(G[g].anonymous) \subseteq Range(G[g].sections[1].list)
     /\ "g2" \in DOMAIN G =>
          /\ Len(G["g2"].sections) = 1
          /\ G["g2"].sections[1].list \in {<<>>, <<"B">>}
          /\ G["g2"].sections[1].limit = DefaultLimit
          /\ G["g2"].sections[1].backupLimit = DefaultBackupLimit
          /\ G["g2"].anonymous = <<>>}

RtInit ==
  /\ InitBase
  /\ now = 0
  /\ games \in RtRegistries
  /\ file = [exists |-> TRUE, data |-> games]
  /\ regCsvFile = [exists |-> FALSE, rows |-> <<>>]
  /\ USE_GITHUB = FALSE
  /\ pool = FALSE
  /\ remote = [exists |-> FALSE, rows |-> <<>>, sha |-> 0]
  /\ reachable = TRUE
  /\ proc = [p \in Procs |-> EmptyProc]

\* saveCurrentListSnapshot writes the text of the whole registry
SnapshotText ==
  /\ ev.op = "init"
  /\ regCsvFile' = [exists |-> TRUE, rows |-> CsvText(Flatten(games))]
  /\ ev' = Ev("Snapshot", "", "", <<>>, <<>>)
  /\ UNCHANGED <<games, now, userNameCache, uidToNameMap, pend, fileVars,
                 USE_GITHUB, regCsvWriteChain, regCsvSha, regCsvContent,
                 remote, reachable, proc, csvLog, schedVars>>

\* the process starts again with games.json gone: loadGames gives the
\* empty registry and restoreGamesFromCsv rebuilds it from the text
RecoverText ==
  /\ ev.op = "Snapshot"
  /\ LET rows == ParseCsv(regCsvFile.rows)
         G == IF rows = <<>> THEN EmptyGames ELSE restoreGamesFromCsv(rows, now)
     IN /\ games' = G
        /\ file' = [exists |-> G # EmptyGames, data |-> G]
  /\ ev' = Ev("Recover", "", "", <<>>, <<>>)
  /\ UNCHANGED <<now, userNameCache, uidToNameMap, pend, pendingSaves,
                 saveFileTimeout, timers, fileWrite, isShuttingDown, pool, db,
                 dbUp, dbLog, csvVars, schedVars>>

RtNext == SnapshotText \/ RecoverText

RtSpec == RtInit /\ [][RtNext]_vars

\* the lists of a game, section by section
ListsOf(game) == [k \in 1..Len(game.sections) |-> game.sections[k].list]

\* C14: after the round trip every game of the original registry is there
\* again, and its section lists are the original ones without the
\* anonymous placeholders, in the original order.
C14_RoundTrip ==
  [][ev'.op = "Recover" =>
       \A g \in DOMAIN games :
         /\ g \in DOMAIN games'
         /\ ListsOf(games'[g])
              = [k \in 1..Len(games[g].sections) |->
                   NonAnon(games[g].sections[k].list)]]_vars

\* the registry with every anonymous entry taken out of the lists: the
\* placeholders and the names that the game's anonymous list holds
WithoutAnonymous(G) ==
  [g \in DOMAIN G |->
     [G[g] EXCEPT !.sections =
        [k \in 1..Len(@) |->
           [@[k] EXCEPT !.list =
              Filter(@, Range(@) \ ({ANON} \cup Range(G[g].anonymous)))]]]]

\* C15: the snapshot text is the header and one row for each entry that is
\* not anonymous, in list order, and holds no row for an anonymous entry,
\* be it a placeholder or a name of the game's anonymous list.
C15_RowsAreTheRealEntries ==
  [][ev'.op = "Snapshot" =>
       regCsvFile'.rows = CsvText(Flatten(WithoutAnonymous(games)))]_vars

\* ------------------------------------------- recovery at start-up
\* The process has started without games.json and without the remote
\* store; data/registrations.csv is there.  restoreGamesFromCsv has found
\* the registry empty and waits for readFile; commands are handled while
\* it waits.  No game has a scheduleTime, so the checkSchedules that
\* follows the recovery finds nothing to do.
RecSnapshots ==
  {Flatten(G) : G \in
     {[g \in {"g1"} |-> NewGame(DefaultLimit, DefaultBackupLimit, <<"A">>, 0, <<>>, 0)],
      [g \in Gids |-> NewGame(DefaultLimit, DefaultBackupLimit, <<"A">>, 0, <<>>, 0)]}}

RecInit ==
  /\ InitBase
  /\ now = 0
  /\ games = EmptyGames
  /\ file = [exists |-> FALSE, data |-> EmptyGames]
  /\ regCsvFile \in {[exists |-> TRUE, rows |-> rows] : rows \in RecSnapshots}
  /\ USE_GITHUB = FALSE
  /\ pool = FALSE
  /\ remote = [exists |-> FALSE, rows |-> <<>>, sha |-> 0]
  /\ reachable = TRUE
  /\ proc = [p \in Procs |->
               IF p = "startup" THEN [EmptyProc EXCEPT !.pc = "read"] ELSE EmptyProc]

\* byGid.entries(): the conversations of the rows in order of appearance
RestoreOrder(rows) == Filter(GidOrder, {rows[i][1] : i \in 1..Len(rows)})

\* one pass of the loop over byGid: games[gid] = {...}; await saveGame(gid, true);
\* k is the number of conversations already assigned
RestoreAssign(rows, k, op) ==
  LET order == RestoreOrder(rows)
  IN IF k >= Len(order)
     THEN /\ proc' = [proc EXCEPT !["startup"] = [EmptyProc EXCEPT !.pc = "restored"]]
          /\ ev' = Ev(op, "", "", <<>>, <<>>)
          /\ UNCHANGED <<games, fileVars>>
     ELSE LET gid == order[k + 1]
              G == Put(games, gid, restoreGamesFromCsv(rows, now)[gid])
          IN /\ games' = G
             /\ SetFS(saveGame(FS, G, gid, TRUE))
             /\ proc' = [proc EXCEPT !["startup"] =
                           [EmptyProc EXCEPT !.pc = "save", !.rows = rows,
                                             !.wait = k + 1]]
             /\ ev' = Ev(op, gid, "", <<>>, <<>>)

\* readFile returns: the lines are parsed and the first game is assigned
RestoreRead ==
  /\ proc["startup"].pc = "read"
  /\ RestoreAssign(IF regCsvFile.exists THEN regCsvFile.rows ELSE <<>>, 0,
                   "RestoreRead")
  /\ UNCHANGED <<now, userNameCache, uidToNameMap, pend, USE_GITHUB,
                 regCsvWriteChain, regCsvSha, regCsvContent, regCsvFile,
                 remote, reachable, csvLog, schedVars>>

\* the awaited saveGame returns: the next game is assigned, or the loop ends
RestoreSaved ==
  /\ proc["startup"].pc = "save"
  /\ RestoreAssign(proc["startup"].rows, proc["startup"].wait, "RestoreSaved")
  /\ UNCHANGED <<now, userNameCache, uidToNameMap, pend, USE_GITHUB,
                 regCsvWriteChain, regCsvSha, regCsvContent, regCsvFile,
                 remote, reachable, csvLog, schedVars>>

RecNext ==
  \/ \E gid \in Gids, uid \in Uids :
       \/ \E names \in {<<>>, <<"B">>} :
            Create(gid, uid, 1, 0, names, 0, 0, names # <<>>, <<>>)
       \/ \E name \in Names : Join(gid, uid, 1, "names", <<name>>)
       \/ Leave(gid, uid, "name", "A")
  \/ RestoreRead
  \/ RestoreSaved

RecSpec == RecInit /\ [][RecNext]_vars

\* C16: no step of the recovery creates or replaces the game of a
\* conversation that has a game in the registry at that moment, also when
\* that game was created by a command handled while the recovery waited.
C16_RecoveryKeepsExistingGames ==
  [][ev'.op \in {"RestoreRead", "RestoreSaved"} =>
       \A g \in DOMAIN games : g \in DOMAIN games' /\ games'[g] = games[g]]_vars

\* ------------------------------------------------------ expiry sweep
\* In this specification the clock counts days and starts at day 1; a
\* time stamp of 0 stands for a field the game does not have.
EXPIRY_TIME == 7
MaxDays == 9      \* the clock runs 1..MaxDays

DayTick ==
  /\ now < MaxDays
  /\ now' = now + 1
  /\ ev' = Ev("Tick", "", "", <<>>, <<>>)
  /\ UNCHANGED <<games, userNameCache, uidToNameMap, pend, fileVars,
                 csvVars, schedVars>>

\* games[gid].lastActiveTime || games[gid].startTime || now
LastActive(game, t) ==
  IF game.lastActiveTime # 0 THEN game.lastActiveTime
  ELSE IF game.startTime # 0 THEN game.startTime
  ELSE t

Expired_inclusive(age) == age >= EXPIRY_TIME
\* now - lastActive > EXPIRY_TIME
Expired(age) == age > EXPIRY_TIME

\* One pass of the loop of checkExpiredGames, for the game of gid.  The
\* sweep reads the clock once; it does not last into the next day, so the
\* day it read is the day of each of its passes.  The reply of the step
\* carries the age found (the sweep sends no message).
checkExpiredGames(gid) ==
  /\ gid \in DOMAIN games
  /\ LET stamped == games[gid].startTime # 0
         game == IF stamped THEN games[gid]
                 ELSE [games[gid] EXCEPT !.startTime = now, !.lastActiveTime = now]
         age == now - LastActive(game, now)
     IN IF Expired(age)
        THEN /\ DeleteOf(gid)
             /\ ev' = Ev("Sweep", gid, "", <<>>, <<Reply("expired", age)>>)
        ELSE /\ games' = Put(games, gid, game)
             /\ IF stamped THEN UNCHANGED fileVars
                ELSE SetFS(saveGame(FS, Put(games, gid, game), gid, TRUE))
             /\ ev' = Ev("Sweep", gid, "", <<>>, <<Reply("kept", age)>>)
             /\ UNCHANGED <<now, userNameCache, uidToNameMap, pend, csvVars,
                            schedVars>>

\* games.json of an earlier run: nothing, or a game of the earlier version
\* of the Create handler, which has a startTime and no lastActiveTime; its
\* active flag is whatever the file holds
ExpStored ==
  {EmptyGames} \cup
  {[g \in {"g2"} |->
      [NewGame(DefaultLimit, DefaultBackupLimit, <<"A">>, 0, <<>>, 1)
         EXCEPT !.lastActiveTime = 0, !.active = a]] : a \in BOOLEAN}

ExpInit ==
  /\ InitBase
  /\ now = 1
  /\ games \in ExpStored
  /\ file = [exists |-> games # EmptyGames, data |-> games]
  /\ regCsvFile = [exists |-> FALSE, rows |-> <<>>]
  /\ USE_GITHUB = FALSE
  /\ pool = FALSE
  /\ remote = [exists |-> FALSE, rows |-> <<>>, sha |-> 0]
  /\ reachable = TRUE
  /\ proc = [p \in Procs |-> EmptyProc]

\* the commands that change a game, the clock and the sweep; the stored
\* game of g2 gets + and - commands only
ExpNext ==
  \/ \E uid \in Uids :
       \/ Create("g1", uid, 1, 0, <<>>, 0, 0, FALSE, <<>>)
       \/ \E gid \in Gids :
            \/ Join(gid, uid, 1, "names", <<"A">>)
            \/ Leave(gid, uid, "name", "A")
       \/ BulkList("g1", uid, <<"A">>)
       \/ Modify("g1", uid, FALSE, <<2>>, <<>>, <<>>)
       \/ ConfigureSection("g1", uid, 0, <<2>>, <<>>)
       \/ Clear("g1", uid)
  \/ DayTick
  \/ FileTimerFire
  \/ FileWriteDone
  \/ \E gid \in Gids : checkExpiredGames(gid)

ExpSpec == ExpInit /\ [][ExpNext]_vars

\* C17: a pass of the sweep deletes the game exactly when the day of the
\* sweep minus lastActiveTime (startTime for a game without lastActiveTime)
\* is more than 7 days, whatever the game's active flag; otherwise the game
\* stays as it is.
C17_SweepDeletesIffOlderThanSevenDays ==
  [][(ev'.op = "Sweep" /\ games[ev'.gid].startTime # 0) =>
       LET game == games[ev'.gid]
           since == IF game.lastActiveTime # 0 THEN game.lastActiveTime
                    ELSE game.startTime
       IN IF now - since > EXPIRY_TIME
          THEN ev'.gid \notin DOMAIN games'
          ELSE games' = games]_vars

\* a game last touched 8 days ago has just been deleted by a pass of the
\* sweep; the stored game of the other conversation is inactive
C17_Witness ==
  /\ ev.op = "Sweep" /\ ev.gid = "g1"
  /\ ev.replies = <<Reply("expired", EXPIRY_TIME + 1)>>
  /\ "g1" \notin DOMAIN games
  /\ "g2" \in DOMAIN games /\ ~games["g2"].active

StateChangingOps ==
  {"Create", "Join", "Leave", "BulkList", "Modify", "ConfigureSection", "Clear"}

\* C18: after every accepted command that changes a game (Create, Join,
\* Leave, BulkList, Modify, ConfigureSection, Clear) the game's
\* lastActiveTime is the time at which the command was handled.
C18_MutationStampsLastActiveTime ==
  [][(/\ ev'.op \in StateChangingOps
      /\ ev'.gid \in DOMAIN games'
      /\ games' # games)
       => games'[ev'.gid].lastActiveTime = now']_vars

\* ------------------------------------------------------------ replies
RosterOps ==
  {"Create", "End", "Delete", "Modify", "Join", "Leave", "BulkList", "Clear"}

\* the messages sent with the command's reply token (a reminder is pushed)
Answers(e) == SelectSeq(e.replies, LAMBDA r : r.kind # "push")

\* C19: every step that ends the handling of a roster command sends exactly
\* one reply, also when the conversation has no game and when the game was
\* deleted while the command waited.
C19_ExactlyOneReply ==
  [][(ev'.op \in RosterOps /\ Len(pend') <= Len(pend)) =>
       Len(Answers(ev')) = 1]_vars

\* -------------------------------------------------- name caches
\* + and - commands without a name, the list command (which records the
\* names it adds in uidToNameMap), and restarts, which empty both caches
\* and keep the registry.  Every lookup succeeds.
CacheNext ==
  \/ \E gid \in Gids, uid \in Uids :
       \/ \E names \in {<<>>, <<"B">>} :
            Create(gid, uid, DefaultLimit, DefaultBackupLimit, names, 0, 0,
                   names # <<>>, <<>>)
       \/ \E name \in Names : BulkList(gid, uid, <<name>>)
       \/ Join(gid, uid, 1, "none", <<>>)
       \/ Leave(gid, uid, "none", "")
       \/ Clear(gid, uid)
  \/ \E i \in 1..MaxPending : JoinResume(i, TRUE)
  \/ \E i \in 1..MaxPending : LeaveResume(i, TRUE)
  \/ Restart(FALSE)

CacheSpec == Init /\ [][CacheNext]_vars

\* C20: whatever the display-name cache and uidToNameMap hold, a + or - command
\* without a name acts on the caller's display name, the name a fresh
\* lookup gives, so that the lists do not depend on the caches.  (Every
\* Join and Leave of CacheSpec is a command without a name.)
C20_NamelessUsesDisplayName ==
  [][(ev'.op \in {"Join", "Leave"} /\ ev'.names # <<>>) =>
       ev'.names = <<DisplayName(ev'.uid)>>]_vars

\* ------------------------------------------------- anonymous entries
\* C21: a + command for N anonymous places that reaches the duplicate test
\* is not answered as a duplicate and leaves section 0's list equal to the
\* old list with N placeholders appended, whatever the list held.
C21_AnonymousJoinAppendsN ==
  [][(/\ ev'.op = "Join"
      /\ ev'.names # <<>>
      /\ Range(ev'.names) = {ANON}
      /\ ev'.gid \in DOMAIN games)
       => /\ ev'.replies = AcceptedReply
          /\ ev'.gid \in DOMAIN games'
          /\ List0(games', ev'.gid) = List0(games, ev'.gid) \o ev'.names]_vars

\* a placeholder was just appended behind a placeholder
C21_Witness ==
  /\ ev.op = "Join" /\ ev.names = <<ANON>> /\ ev.replies = AcceptedReply
  /\ "g1" \in DOMAIN games
  /\ List0(games, "g1") = <<ANON, ANON>>

\* ------------------------------------------------- rendering the list
MASK == "***"

\* one line of the message: its block, its number and the name printed
Line(block, no, text) == [block |-> block, no |-> no, text |-> text]

RECURSIVE Cat(_)
\* msg += ... over the passes of a loop
Cat(parts) == IF parts = <<>> THEN <<>> ELSE Head(parts) \o Cat(Tail(parts))

\* (name === '__ANON__') || (g.anonymous || []).includes(name)
IsAnon(game, name) == name = ANON \/ Includes(game.anonymous, name)

\* a waitlist test that lets every further entry through
InWaitlist_all(sec, i) == TRUE

\* i < sec.limit + sec.backupLimit
InWaitlist(sec, i) == i < sec.limit + sec.backupLimit

\* the lines sendList writes for one section; i is the 0-based index
SectionLines(game, sec) ==
  LET n == Len(sec.list)
      Confirmed(i) ==
        IF i < n
        THEN IF IsAnon(game, sec.list[i + 1])
                /\ i + 1 < n /\ IsAnon(game, sec.list[i + 2])
             THEN <<>>
             ELSE <<Line("confirmed", i + 1,
                         IF IsAnon(game, sec.list[i + 1]) THEN MASK
                         ELSE sec.list[i + 1])>>
        ELSE IF i = sec.limit - 1 THEN <<Line("open", i + 1, "")>>
        ELSE IF i = n THEN <<Line("dots", 0, "")>>
        ELSE <<>>
      Waiting(i) ==
        IF InWaitlist(sec, i)
        THEN <<Line("waitlist", i - sec.limit + 1,
                    IF Includes(game.anonymous, sec.list[i + 1]) THEN MASK
                    ELSE sec.list[i + 1])>>
        ELSE <<>>
  IN Cat([k \in 1..sec.limit |-> Confirmed(k - 1)])
     \o (IF n >= sec.limit
         THEN <<Line("waitHeader", 0, "")>>
              \o Cat([k \in 1..(n - sec.limit) |-> Waiting(sec.limit + k - 1)])
         ELSE <<>>)

\* the message of sendList: the lines of each section
sendList(game) ==
  [k \in 1..Len(game.sections) |-> SectionLines(game, game.sections[k])]

\* the list query
ListQuery(gid, uid) ==
  /\ ev' = Ev("List", gid, uid, <<>>,
              IF gid \in DOMAIN games THEN <<Reply("text", sendList(games[gid]))>>
              ELSE <<Reply("noGame", 0)>>)
  /\ UNCHANGED <<games, now, userNameCache, uidToNameMap, pend, fileVars,
                 csvVars, schedVars>>

\* Games the process has loaded from games.json: built by the handlers of
\* an earlier run (section 0 with names and placeholders, names of an
\* anonymous field), a second section from a snapshot with rows for it.
ListLists ==
  {l \in SeqsUpTo(Names \cup {ANON}, 3) : ~HasSelfDuplicate(NonAnon(l))}

ListGames ==
  {[active |-> TRUE, scheduleTime |-> 0, sections |-> secs,
    anonymous |-> anon, startTime |-> 0, lastActiveTime |-> 0] :
     secs \in {<<Section(limit, backupLimit, l1)>> :
                 limit \in 0..2, backupLimit \in 0..1, l1 \in ListLists}
              \cup {<<Section(1, 1, l1), Section(1, 0, l2)>> :
                      l1 \in ListLists, l2 \in {<<"A">>, <<"B", "A">>}},
     anon \in {<<>>, <<"B">>}}

ListInit ==
  /\ InitBase
  /\ now = 0
  /\ games \in {[g \in {"g1"} |-> game] : game \in ListGames}
  /\ file = [exists |-> TRUE, data |-> games]
  /\ regCsvFile = [exists |-> FALSE, rows |-> <<>>]
  /\ USE_GITHUB = FALSE
  /\ pool = FALSE
  /\ remote = [exists |-> FALSE, rows |-> <<>>, sha |-> 0]
  /\ reachable = TRUE
  /\ proc = [p \in Procs |-> EmptyProc]

ListNext ==
  \E gid \in CmdGids, uid \in Uids :
    \/ ListQuery(gid, uid)
    \/ Join(gid, uid, 1, "anon", <<>>)
    \/ Leave(gid, uid, "anon", ANON)
    \/ \E name \in Names : Leave(gid, uid, "name", name)

ListSpec == ListInit /\ [][ListNext]_vars

\* C22: a - command for an anonymous place removes the placeholder at the
\* highest index of section 0's list and nothing else; without a
\* placeholder in section 0 all lists stay as they are.
C22_LeaveAnonRemovesLastPlaceholder ==
  [][(ev'.op = "Leave" /\ ev'.names = <<ANON>> /\ ev'.gid \in DOMAIN games) =>
       LET old == games[ev'.gid].sections
           new == games'[ev'.gid].sections
           l == old[1].list
       IN /\ Len(new) = Len(old)
          /\ \A k \in 2..Len(old) : new[k].list = old[k].list
          /\ IF Includes(l, ANON)
             THEN \E i \in 1..Len(l) :
                    /\ l[i] = ANON
                    /\ \A j \in (i + 1)..Len(l) : l[j] # ANON
                    /\ new[1].list = SubSeq(l, 1, i - 1) \o SubSeq(l, i + 1, Len(l))
             ELSE new[1].list = l]_vars

\* the later of two placeholders around a name has just been removed
C22_Witness ==
  /\ ev.op = "Leave" /\ ev.names = <<ANON>>
  /\ "g1" \in DOMAIN games
  /\ List0(games, "g1") = <<ANON, "A">>
  /\ file.exists /\ List0(file.data, "g1") = <<ANON, "A">>

\* C23: a - command with a real name removes the name from every section
\* that holds it, keeps the other entries in their order, and replies with
\* the list, also when no section holds the name.
C23_LeaveNameRemovesEverywhere ==
  [][(/\ ev'.op = "Leave" /\ Len(ev'.names) = 1 /\ ev'.names[1] # ANON
      /\ ev'.gid \in DOMAIN games) =>
       LET old == games[ev'.gid].sections
           new == games'[ev'.gid].sections
       IN /\ ev'.replies = AcceptedReply
          /\ Len(new) = Len(old)
          /\ \A k \in 1..Len(old) :
               new[k].list = Filter(old[k].list, Range(old[k].list) \ {ev'.names[1]})]_vars

\* the name was in both sections and is in neither now
C23_Witness ==
  /\ ev.op = "Leave" /\ ev.names = <<"A">> /\ ev.replies = AcceptedReply
  /\ "g1" \in DOMAIN games /\ Len(games["g1"].sections) = 2
  /\ games["g1"].sections[1].list = <<ANON, "B">>
  /\ games["g1"].sections[2].list = <<"B">>

\* the lines of one block of a section's part of a rendered message
Block(lines, block) == SelectSeq(lines, LAMBDA ln : ln.block = block)

Min(a, b) == IF a < b THEN a ELSE b

\* the sections a list query has just rendered, with their lines
Rendered ==
  IF ev.op = "List" /\ ev.gid \in DOMAIN games
  THEN {<<games[ev.gid].sections[k], ev.replies[1].arg[k]>> :
          k \in 1..Len(games[ev.gid].sections)}
  ELSE {}

\* C24: for a section of real names only, the message has the confirmed
\* lines 1..limit for the entries at index < limit, the waitlist lines
\* 1..backupLimit for the entries at limit <= index < limit + backupLimit,
\* nothing for later entries, and a waitlist block only when the list has
\* at least limit entries.
C24_RealNamesRenderByIndex ==
  \A r \in Rendered :
    LET sec == r[1]
        lines == r[2]
        n == Len(sec.list)
        shown == Min(n, sec.limit + sec.backupLimit)
    IN (\A i \in 1..n : ~IsAnon(games[ev.gid], sec.list[i])) =>
         /\ Block(lines, "confirmed")
              = [i \in 1..Min(n, sec.limit) |-> Line("confirmed", i, sec.list[i])]
         /\ Block(lines, "waitlist")
              = [j \in 1..(IF shown > sec.limit THEN shown - sec.limit ELSE 0) |->
                   Line("waitlist", j, sec.list[sec.limit + j])]
         /\ (Block(lines, "waitHeader") # <<>>) <=> (n >= sec.limit)

\* two names and room for one: the first confirmed, an empty waitlist
\* block, the second not rendered
C24_Witness ==
  /\ ev.op = "List" /\ "g1" \in DOMAIN games
  /\ games["g1"].anonymous = <<>>
  /\ games["g1"].sections = <<Section(1, 0, <<"B", "A">>)>>
  /\ ev.replies[1].arg[1] = <<Line("confirmed", 1, "B"), Line("waitHeader", 0, "")>>

\* C25: in the confirmed block a real name at index i is on line i+1, and
\* of every maximal run of anonymous entries among the confirmed positions
\* exactly the last one is printed, as the mask, on the line of its index.
C25_ConfirmedBlockFoldsRuns ==
  \A r \in Rendered :
    LET sec == r[1]
        n == Len(sec.list)
        top == Min(n, sec.limit)
        anon(i) == IsAnon(games[ev.gid], sec.list[i])
        printed == {i \in 1..top : ~anon(i) \/ i = top \/ ~anon(i + 1)}
    IN Range(Block(r[2], "confirmed"))
         = {Line("confirmed", i, IF anon(i) THEN MASK ELSE sec.list[i]) :
              i \in printed}

\* C26: an anonymous entry in the waitlist block is printed as the mask, one
\* line per entry, and the placeholder is in no line of a message.
C26_WaitlistMasksAnonymous ==
  \A r \in Rendered :
    LET sec == r[1]
        n == Len(sec.list)
        shown == Min(n, sec.limit + sec.backupLimit)
    IN /\ \A ln \in Range(r[2]) : ln.text # ANON
       /\ Len(Block(r[2], "waitlist"))
            = (IF shown > sec.limit THEN shown - sec.limit ELSE 0)
       /\ \A j \in 1..Len(Block(r[2], "waitlist")) :
            IsAnon(games[ev.gid], sec.list[sec.limit + j])
              => Block(r[2], "waitlist")[j].text = MASK

\* ------------------------------------------------ limits of a section
\* what parseInt makes of the text of a {..} field of the section command
ParamValues == {-1, 0, 2}

LimNext ==
  \/ \E gid \in CmdGids, uid \in Uids :
       \/ \E limit \in 0..1, backupLimit \in 0..1 :
            Create(gid, uid, limit, backupLimit, <<>>, 0, 0, FALSE, <<>>)
       \/ \E limitOpt \in Opt({0, 2}), backupOpt \in Opt({0, 1}) :
            Modify(gid, uid, FALSE, limitOpt, backupOpt, <<>>)
       \/ \E idx \in 0..1, limitP \in Opt(ParamValues), backupP \in Opt(ParamValues) :
            ConfigureSection(gid, uid, idx, limitP, backupP)
       \/ Join(gid, uid, 1, "names", <<"A">>)
       \/ Delete(gid, uid)
  \/ FileTimerFire
  \/ FileWriteDone
  \/ \E lost \in BOOLEAN : Restart(lost)

LimSpec == Init /\ [][LimNext]_vars

\* C27: every section of every game has a limit and a backupLimit that are
\* not negative, whatever Create, Modify, the section command and the
\* recovery from the snapshot have done.
C27_LimitsNeverNegative ==
  \A gid \in DOMAIN games :
    \A k \in 1..Len(games[gid].sections) :
      /\ games[gid].sections[k].limit >= 0
      /\ games[gid].sections[k].backupLimit >= 0

\* ----------------------------------------------- the minute timer's guard
\* a scan of the minute timer is running
TimerScans == {i \in 1..Len(scans) : scans[i].kind = "timer"}

\* executeCheck, one firing of the minute timer:
\* if (checkingSchedules) return; otherwise the flag is set and
\* checkSchedules runs to its first push or to its end
executeCheck ==
  IF checkingSchedules
  THEN /\ ev' = Ev("TimerSkipped", "", "", <<>>, <<>>)
       /\ UNCHANGED <<games, now, userNameCache, uidToNameMap, pend, fileVars,
                      csvVars, schedVars>>
  ELSE ScanStart("timer")

\* the end of executeCheck's try block that leaves the flag as it is
ScanThrew_keepFlag(i) ==
  /\ i \in TimerScans
  /\ scans' = DropAt(scans, i)
  /\ ev' = Ev("ScanThrew", scans[i].wait, "", <<>>, <<>>)
  /\ UNCHANGED <<games, now, userNameCache, uidToNameMap, pend, fileVars,
                 csvVars, checkingSchedules, scanPushes>>

\* await checkSchedules() rejects inside executeCheck: the catch logs the
\* error and the finally block clears the flag
ScanThrew(i) ==
  /\ i \in TimerScans
  /\ scans' = DropAt(scans, i)
  /\ checkingSchedules' = FALSE
  /\ ev' = Ev("ScanThrew", scans[i].wait, "", <<>>, <<>>)
  /\ UNCHANGED <<games, now, userNameCache, uidToNameMap, pend, fileVars,
                 csvVars, scanPushes>>

TimerNext ==
  \/ \E gid \in Gids, uid \in Uids, sched \in Scheds :
       /\ gid = "g2" => "g1" \in DOMAIN games
       /\ Create(gid, uid, 1, 0, <<>>, 0, sched, FALSE, <<>>)
  \/ Tick
  \/ executeCheck
  \/ ScanStart("forced")
  \/ \E i \in 1..MaxScans, ok \in BOOLEAN : ScanPushDone(i, ok)
  \/ \E i \in 1..MaxScans : ScanThrew(i)
  \/ FileTimerFire
  \/ FileWriteDone

TimerSpec == Init /\ [][TimerNext]_vars

\* C28: at most one scan of the minute timer runs at a time; a firing that
\* finds the flag set performs no scan and changes nothing; the flag is set
\* exactly while a scan of the timer runs, so it is released when the scan
\* ends, by its last push returning or by an exception.
C28_TimerScansNeverOverlap ==
  /\ [](/\ Cardinality(TimerScans) <= 1
        /\ checkingSchedules <=> TimerScans # {})
  /\ [][ev'.op = "TimerSkipped" =>
          /\ checkingSchedules
          /\ UNCHANGED <<games, now, userNameCache, uidToNameMap, pend, fileVars,
                         csvVars, schedVars>>]_vars

\* a firing was skipped while the timer's scan waits for its push
C28_Witness ==
  /\ ev.op = "TimerSkipped"
  /\ checkingSchedules
  /\ Cardinality(TimerScans) = 1
  /\ Len(scans) = 2

\* the timer's scan has just thrown and the flag is free again
C28_ThrewReleased ==
  /\ ev.op = "ScanThrew"
  /\ ~checkingSchedules
  /\ TimerScans = {}

\* ------------------------------------------------------ the start-up chain
\* File mode without the remote store: loadGames has read games.json
\* synchronously, the callback of loadPromise.then has not run yet.
\* proc["startup"].pc: "chain" -> ("read" -> "save" ->) "restored" ->
\* "eager" -> "timer".
StartTime == 1

StartStored ==
  {EmptyGames}
  \cup {[g \in {"g1"} |-> NewGame(1, 0, <<>>, s1, <<>>, 0)] : s1 \in Scheds}
  \cup {[g \in Gids |-> NewGame(1, 0, <<>>, IF g = "g1" THEN s1 ELSE s2, <<>>, 0)] :
          s1 \in Scheds, s2 \in Scheds}

StartInit ==
  /\ InitBase
  /\ now = StartTime
  /\ games \in StartStored
  /\ file = [exists |-> games # EmptyGames, data |-> games]
  /\ regCsvFile \in {[exists |-> FALSE, rows |-> <<>>]}
                    \cup {[exists |-> TRUE, rows |-> rows] : rows \in RecSnapshots}
  /\ USE_GITHUB = FALSE
  /\ pool = FALSE
  /\ remote = [exists |-> FALSE, rows |-> <<>>, sha |-> 0]
  /\ reachable = TRUE
  /\ proc = [p \in Procs |->
               IF p = "startup" THEN [EmptyProc EXCEPT !.pc = "chain"] ELSE EmptyProc]

\* the callback of loadPromise.then starts: restoreGamesFromCsv returns
\* false at once, or awaits readFile
ChainStart ==
  /\ proc["startup"].pc = "chain"
  /\ proc' = [proc EXCEPT !["startup"].pc =
                IF games = EmptyGames /\ regCsvFile.exists /\ regCsvFile.rows # <<>>
                THEN "read" ELSE "restored"]
  /\ ev' = Ev("ChainStart", "", "", <<>>, <<>>)
  /\ UNCHANGED <<games, now, userNameCache, uidToNameMap, pend, fileVars,
                 USE_GITHUB, regCsvWriteChain, regCsvSha, regCsvContent,
                 regCsvFile, remote, reachable, csvLog, schedVars>>

\* return checkSchedules().catch(console.error): the eager scan, to its
\* first push or to its end
EagerScan ==
  /\ proc["startup"].pc = "restored"
  /\ LET res == ScanRun(games, FS, NewScan("eager", now, games))
     IN /\ res.sc.wait # "" => scanPushes[res.sc.wait] < MaxScans
        /\ games' = res.G
        /\ SetFS(res.fs)
        /\ scans' = IF res.sc.wait = "" THEN scans ELSE Append(scans, res.sc)
        /\ scanPushes' = CountPush(scanPushes, res.sc)
        /\ ev' = ScanEv("EagerScan", res.sc,
                        IF res.sc.wait = "" THEN 0
                        ELSE games[res.sc.wait].scheduleTime)
  /\ proc' = [proc EXCEPT !["startup"].pc = "eager"]
  /\ UNCHANGED <<now, userNameCache, uidToNameMap, pend, USE_GITHUB,
                 regCsvWriteChain, regCsvSha, regCsvContent, regCsvFile,
                 remote, reachable, csvLog, checkingSchedules>>

\* a chain that goes on to its next callback without waiting for the scan
EagerDone_always == TRUE

\* the promise returned by checkSchedules() has settled
EagerDone == \A i \in 1..Len(scans) : scans[i].kind # "eager"

\* .then(() => { startMinuteCheck(); })
StartMinuteCheck ==
  /\ proc["startup"].pc = "eager"
  /\ EagerDone
  /\ proc' = [proc EXCEPT !["startup"].pc = "timer"]
  /\ ev' = Ev("StartMinuteCheck", "", "", <<>>, <<>>)
  /\ UNCHANGED <<games, now, userNameCache, uidToNameMap, pend, fileVars,
                 USE_GITHUB, regCsvWriteChain, regCsvSha, regCsvContent,
                 regCsvFile, remote, reachable, csvLog, schedVars>>

\* the webhook and the timers are served while the chain waits for a file
\* or a push
Serving == proc["startup"].pc \notin {"chain", "restored"}

\* a command sets no schedule time that has already passed
StartNext ==
  \/ ChainStart
  \/ RestoreRead
  \/ RestoreSaved
  \/ EagerScan
  \/ StartMinuteCheck
  \/ \E gid \in Gids, uid \in Uids, sched \in {0, MaxTime} :
       /\ Serving
       /\ sched > now \/ sched = 0
       /\ Create(gid, uid, 1, 0, <<>>, 0, sched, FALSE, <<>>)
  \/ Serving /\ Tick
  \/ proc["startup"].pc = "timer" /\ executeCheck
  \/ \E i \in 1..MaxScans, ok \in BOOLEAN : Serving /\ ScanPushDone(i, ok)
  \/ Serving /\ FileTimerFire
  \/ Serving /\ FileWriteDone

\* the event loop runs a continuation whose file read, file write or push
\* has returned
StartProgress ==
  \/ ChainStart
  \/ RestoreRead
  \/ RestoreSaved
  \/ EagerScan
  \/ StartMinuteCheck
  \/ \E i \in 1..MaxScans, ok \in BOOLEAN : ScanPushDone(i, ok)

StartSpec == StartInit /\ [][StartNext]_vars /\ WF_vars(StartProgress)

\* the eager scan has not started
BeforeEager == proc["startup"].pc \in {"chain", "read", "save", "restored"}

C30_ExitAfterFlushDrainFinalWrite ==
  proc.shutdown.pc = "exited" =>
    /\ isShuttingDown /\ pendingSaves = {} /\ ~saveFileTimeout
    /\ regCsvWriteChain = <<>> /\ proc.chain.pc = "idle"
    /\ (USE_GITHUB /\ regCsvContent.nonEmpty) => proc.shutdown.puts >= 1

\* ------------------------------------------------- Modify and its frame
\* the list fields a Modify is sent with
ModLists == {<<"A">>, <<"A", "A">>}

\* loaded games with three entries in section 0 and a name in the anonymous
\* list, with and without a second section
ModInit ==
  /\ ListInit
  /\ games["g1"].anonymous = <<"B">>
  /\ games["g1"].sections[1].list \in {<<"A", ANON, "B">>, <<"B", ANON, "A">>}
  /\ games["g1"].sections[1].limit = 1
  /\ games["g1"].sections[1].backupLimit = 1

ModNext ==
  \E gid \in CmdGids, uid \in Uids :
    \/ \E hasTitle \in BOOLEAN, limitOpt \in Opt({0, 2}), backupOpt \in Opt({0}),
          listOpt \in Opt(ModLists) :
         Modify(gid, uid, hasTitle, limitOpt, backupOpt, listOpt)
    \/ \E idx \in 0..1, limitP \in Opt({1}), backupP \in {<<>>} :
         ConfigureSection(gid, uid, idx, limitP, backupP)
    \/ ListQuery(gid, uid)

ModSpec == ModInit /\ [][ModNext]_vars

\* the fields of a game other than section 0 and lastActiveTime are the same
SameOutsideSection0(old, new) ==
  /\ new.active = old.active
  /\ new.scheduleTime = old.scheduleTime
  /\ new.anonymous = old.anonymous
  /\ new.startTime = old.startTime
  /\ Len(new.sections) = Len(old.sections)
  /\ \A k \in 2..Len(old.sections) : new.sections[k] = old.sections[k]

\* C31: an accepted Modify changes no field of the game other than the
\* fields its text names and lastActiveTime, and gives limit, backupLimit
\* and list the values named; a Modify that names no field gets the
\* nothing-to-modify reply and changes nothing.
C31_ModifyChangesOnlyNamedFields ==
  [][ev'.op = "Modify" =>
     \A gid \in CmdGids, uid \in Uids, hasTitle \in BOOLEAN,
        limitOpt \in Opt({0, 2}), backupOpt \in Opt({0}), listOpt \in Opt(ModLists) :
       Modify(gid, uid, hasTitle, limitOpt, backupOpt, listOpt) =>
         /\ ev'.replies = AcceptedReply =>
              LET old == games[gid]
                  new == games'[gid]
              IN /\ SameOutsideSection0(old, new)
                 /\ limitOpt = <<>> => new.sections[1].limit = old.sections[1].limit
                 /\ backupOpt = <<>> =>
                      new.sections[1].backupLimit = old.sections[1].backupLimit
                 /\ listOpt = <<>> => new.sections[1].list = old.sections[1].list
                 /\ (limitOpt # <<>> /\ limitOpt[1] > 0) =>
                      new.sections[1].limit = limitOpt[1]
                 /\ backupOpt # <<>> => new.sections[1].backupLimit = backupOpt[1]
                 /\ listOpt # <<>> => new.sections[1].list = listOpt[1]
         /\ (~hasTitle /\ limitOpt = <<>> /\ backupOpt = <<>> /\ listOpt = <<>>) =>
              /\ ev'.replies = <<Reply("nothing", 0)>>
              /\ UNCHANGED <<games, fileVars, csvVars, schedVars>>]_vars

\* a Modify of the limit alone was accepted on a game with a second section,
\* an anonymous list and a waitlist size of 1
C31_Witness ==
  /\ ev.op = "Modify" /\ ev.replies = AcceptedReply
  /\ "g1" \in DOMAIN games
  /\ Len(games["g1"].sections) = 2
  /\ games["g1"].anonymous = <<"B">>
  /\ games["g1"].sections[1].limit = 2
  /\ games["g1"].sections[1].backupLimit = 1
  /\ games["g1"].sections[1].list = <<"A", ANON, "B">>

\* C32: the section command and a Modify without a list field leave the
\* list of every section as it was, entry by entry.
C32_LimitsNeverTouchLists ==
  [][ev'.op \in {"ConfigureSection", "Modify"} =>
     \A gid \in CmdGids, uid \in Uids :
       /\ \A idx \in 0..1, limitP \in Opt({1}), backupP \in {<<>>} :
            (/\ ev'.op = "ConfigureSection" /\ gid \in DOMAIN games
             /\ ConfigureSection(gid, uid, idx, limitP, backupP)) =>
              /\ \A k \in 1..Len(games[gid].sections) :
                   games'[gid].sections[k].list = games[gid].sections[k].list
              /\ \A k \in (Len(games[gid].sections) + 1)..Len(games'[gid].sections) :
                   games'[gid].sections[k].list = <<>>
       /\ \A hasTitle \in BOOLEAN, limitOpt \in Opt({0, 2}), backupOpt \in Opt({0}) :
            (/\ ev'.op = "Modify" /\ gid \in DOMAIN games
             /\ Modify(gid, uid, hasTitle, limitOpt, backupOpt, <<>>)) =>
              /\ Len(games'[gid].sections) = Len(games[gid].sections)
              /\ \A k \in 1..Len(games[gid].sections) :
                   games'[gid].sections[k].list = games[gid].sections[k].list]_vars

\* the section command has lowered the limit of a section of three entries
C32_Witness ==
  /\ ev.op = "ConfigureSection" /\ ev.replies = AcceptedReply
  /\ "g1" \in DOMAIN games
  /\ games["g1"].sections[1].limit = 1
  /\ games["g1"].sections[1].list = <<"B", ANON, "A">>

\* C33: a Modify rejected for a duplicate name in its new list leaves the
\* game as it was before the command.
C33_RejectedModifyChangesNothing ==
  [][(ev'.op = "Modify" /\ ev'.replies = <<Reply("dupModify", 0)>>) =>
       games' = games]_vars

\* ------------------------------------------- the file follows the registry
\* Create with a schedule time, deletion, the clock, scans of the timer and
\* of the administrator, pushes, the debounce timer and its write
FileNext ==
  \/ \E uid \in Uids, sched \in {0, 1} :
       Create("g1", uid, 1, 0, <<>>, 0, sched, FALSE, <<>>)
  \/ \E gid \in Gids, uid \in Uids : Delete(gid, uid)
  \/ Tick
  \/ ScanStart("timer")
  \/ \E i \in 1..MaxScans, ok \in BOOLEAN : ScanPushDone(i, ok)
  \/ FileTimerFire
  \/ FileWriteDone

FileSpec == Init /\ [][FileNext]_vars

\* no timer is pending, no write is in flight, no scan and no handler waits
Quiescent ==
  /\ timers = 0 /\ ~saveFileTimeout
  /\ ~fileWrite.busy
  /\ scans = <<>>
  /\ pend = <<>>

\* C34: when every pending timer and write has finished, games.json holds
\* the registry as it is in memory: no deleted game and no cleared schedule
\* time is left in the file.
C34_FileEqualsRegistryWhenQuiet ==
  Quiescent => file.data = games

\* ------------------------------------------------ one push per schedule
\* C35: for one schedule set by Create at most one push is dispatched: a
\* scan pushes for a game only if no scan has pushed for this schedule and
\* the Create handler has not pushed for it (it does when the time given is
\* not later than the clock at Create, the game's startTime).
C35_OnePushPerScheduleInAll ==
  [][(ev'.op \in ScanOps /\ ev'.gid # "" /\ ev'.gid \in DOMAIN games) =>
       /\ scanPushes[ev'.gid] = 0
       /\ games[ev'.gid].scheduleTime > games[ev'.gid].startTime]_vars

\* ------------------------------------------- reminders and the expiry sweep
\* the clock counts days here, as in ExpSpec; a time field names no time, a
\* day soon, or a day later than the clock's last day
RemindTimes == {0, 2, MaxDays + 1}

RemindNext ==
  \/ \E uid \in Uids, sched \in RemindTimes :
       Create("g1", uid, 1, 0, <<>>, 0, sched, FALSE, <<>>)
  \/ DayTick
  \/ ScanStart("timer")
  \/ \E i \in 1..MaxScans, ok \in BOOLEAN : ScanPushDone(i, ok)
  \/ FileTimerFire
  \/ FileWriteDone
  \/ \E gid \in Gids : checkExpiredGames(gid)

RemindSpec == ExpInit /\ [][RemindNext]_vars

\* C36: the expiry sweep never deletes a game whose reminder is still to
\* come (its scheduleTime is set and later than the clock), so that the
\* reminder of a game that no command removes is dispatched by the scan
\* that follows the scheduled time.
C36_SweepKeepsPendingReminder ==
  [][(/\ ev'.op = "Sweep" /\ ev'.replies[1].kind = "expired"
      /\ ev'.gid \in DOMAIN games) =>
       games[ev'.gid].scheduleTime <= now]_vars

\* ------------------------------------------- sign-up before the scheduled time
SignupNext ==
  \/ \E uid \in Uids, sched \in Scheds :
       Create("g1", uid, 1, 0, <<>>, 0, sched, FALSE, <<>>)
  \/ \E uid \in Uids, names \in {<<"A">>, <<"B", ANON>>} :
       BulkList("g1", uid, names)
  \/ \E uid \in Uids : Join("g1", uid, 1, "none", <<>>)
  \/ \E uid \in Uids : Join("g1", uid, 1, "names", <<"B">>)
  \/ \E i \in 1..MaxPending : JoinResume(i, TRUE)
  \/ \E gid \in CmdGids, uid \in Uids : Clear(gid, uid)
  \/ Tick

SignupSpec == Init /\ [][SignupNext]_vars

\* C37: while a game's scheduleTime is set and later than the clock, no
\* Join and no BulkList lengthens the list of section 0.
C37_NoSignupBeforeScheduleTime ==
  [][(/\ ev'.op \in {"Join", "BulkList"}
      /\ ev'.gid \in DOMAIN games /\ ev'.gid \in DOMAIN games'
      /\ NotYetOpen(games[ev'.gid], now))
     => Len(List0(games', ev'.gid)) <= Len(List0(games, ev'.gid))]_vars

\* C38: a nameless Join that resumes after its name lookup decides on the
\* list of section 0 as it is at that moment: it is answered with the
\* duplicate error exactly when the looked-up name is in that list, and
\* otherwise the name is appended to that list.
C38_ResumedJoinChecksCurrentList ==
  [][(/\ ev'.op = "Join" /\ Len(pend') < Len(pend)
      /\ Len(ev'.names) = 1
      /\ ev'.gid \in DOMAIN games /\ ev'.gid \in DOMAIN games')
     => LET cur == List0(games, ev'.gid)
        IN IF Includes(cur, ev'.names[1])
           THEN ev'.replies = DupReply /\ List0(games', ev'.gid) = cur
           ELSE /\ ev'.replies = AcceptedReply
                /\ List0(games', ev'.gid) = Append(cur, ev'.names[1])]_vars

\* ------------------------------------------- snapshots after limit changes
\* commands that change lists and limits, with the snapshot chain and a
\* remote store that no other writer commits to
SnapNext ==
  \/ Create("g1", "u1", 1, 0, <<"A">>, 0, 0, TRUE, <<>>)
  \/ Modify("g1", "u1", FALSE, <<2>>, <<>>, <<>>)
  \/ ConfigureSection("g1", "u1", 0, <<2>>, <<>>)
  \/ StartupLoadDone
  \/ ChainLoadDone
  \/ \E lost \in BOOLEAN : PutDone("chain", lost)
  \/ ReloadDone("chain")
  \/ NetChange

SnapSpec == CsvInit /\ [][SnapNext]_vars

\* C39: once at least one snapshot was chained, every PUT succeeded and the
\* chain has drained, the remote blob holds the flattening of the registry:
\* every command that changed a list, a limit or a backupLimit chained a
\* snapshot of the registry it left.
C39_RemoteEqualsRegistryWhenDrained ==
  (csvLog.any /\ csvLog.allOk /\ ~csvLog.foreign /\ Drained)
    => (remote.exists /\ remote.rows = Flatten(games))

\* C40: an accepted Join or BulkList appends its whole batch in the one
\* step that answers it: the new list of section 0 is the old list followed
\* by the batch's names in the order given, and the snapshot written by the
\* step already shows the whole batch.  (A single name that is already on
\* the list is not pushed again; there is no partial batch in that case.)
C40_BatchAppendedInOneStep ==
  [][(/\ ev'.op \in {"Join", "BulkList"} /\ ev'.replies = AcceptedReply
      /\ ev'.names # <<>>
      /\ ev'.gid \in DOMAIN games /\ ev'.gid \in DOMAIN games')
     => LET old == List0(games, ev'.gid)
            new == List0(games', ev'.gid)
        IN /\ \/ new = old \o ev'.names
              \/ /\ Len(ev'.names) = 1 /\ Includes(old, ev'.names[1])
                 /\ new = old
           /\ regCsvFile'.rows = Flatten(games')]_vars

\* a two-name BulkList accepted while a nameless Join waits for its lookup:
\* both names are on the list, in order
C40_Witness ==
  /\ ev.op = "BulkList" /\ ev.replies = AcceptedReply
  /\ ev.names = <<"B", ANON>>
  /\ List0(games, "g1") = <<"B", ANON>>
  /\ Len(pend) = 1 /\ pend[1].kind = "join"

====
